---- MODULE Spec2Model ----
(***************************************************************************)
(* Verification model of galileo-analyzer: the preliminary inventory scan  *)
(* (InventoryScanner, JobCategorizer, CostCalculator, QuickCodeAnalyzer)   *)
(* and the deep scan (DeepScanner).                                        *)
(*                                                                         *)
(* Python values are modelled as follows.                                  *)
(*   dict        a record with a field "keys", the set of keys present,    *)
(*               and one field per key the model reads                     *)
(*   datetime    [wall |-> ticks, aware |-> BOOLEAN]; a day has            *)
(*               TicksPerDay ticks; aware datetimes carry the local zone   *)
(*               (boto3 hands out tzlocal() datetimes)                     *)
(*   float       an exact fraction <<numerator, denominator>> in lowest    *)
(*               terms with a positive denominator                         *)
(*   exception   [type |-> class name, what |-> message, job |-> the job   *)
(*               or name it is about, "" if none]                          *)
(***************************************************************************)
EXTENDS Integers, Sequences, FiniteSets, Bags, TLC

VARIABLES
    args,       \* arguments of the pure function under analysis
    ret,        \* its return value, NoValue before the call
    \* InventoryScanner.scan_jobs
    glue,       \* what the Glue API answers, per job name
    provider_client, \* GlueProvider._client: "glue" once authenticated, else "None"
    job_names,  \* the job_names argument
    scan_pc,    \* "idle", "submit", "as_completed", "returned" or "raised"
    futures,    \* the futures in submission order: job_name, state, outcome
    yielded,    \* indices of the futures as_completed has yielded
    results,    \* the results list
    error_log,  \* what scan_jobs logged with logger.error: <<future index, exception>>
    scan_exc,   \* the exception scan_jobs raised, NoValue if none
    \* DeepScanner.analyze_job_deeply
    preliminary_result, \* the argument
    deep_pc,    \* "idle", "create_tasks", "await", "recommend", "build_result",
                \* "returned" or "raised"
    tasks,      \* the tasks list: the names of the tasks created, in order
    task_state, \* per task name: state "none", "pending" or "done", and outcome
    deep_i,     \* position of the await loop in tasks
    deep_results,       \* the results dict
    recommender_calls,  \* arguments of each generate_recommendations_async call
    ai_recommendations, \* what the recommender returned
    deep_outcome,       \* what analyze_job_deeply returned or raised
    \* the provider object and the API behind it
    provider_class,     \* "GlueProvider", "DatabricksProvider", "SnowflakeProvider",
                        \* "None" when there is no provider object
    prov_pc,    \* "idle", "new", "ready" (construction completed) or "broken"
                \* (construction raised)
    prov_ops,   \* number of operations invoked on the provider object
    api_calls,  \* the bag of API calls made through the boto3 clients
    listing,    \* the locals of get_all_jobs while it runs, NoValue otherwise
    account,    \* how many pages of jobs list_jobs has to serve, or endless
    prov_ret    \* the last operation on the provider: its name, its outcome
                \* and the number of API calls it made

fnVars == <<args, ret>>

scanVars == <<glue, provider_client, job_names, scan_pc, futures, yielded, results,
              error_log, scan_exc>>

deepVars == <<preliminary_result, deep_pc, tasks, task_state, deep_i, deep_results,
              recommender_calls, ai_recommendations, deep_outcome>>

provVars == <<provider_class, prov_pc, prov_ops, api_calls, listing, account, prov_ret>>

vars == <<args, ret, glue, provider_client, job_names, scan_pc, futures, yielded,
          results, error_log, scan_exc, preliminary_result, deep_pc, tasks, task_state,
          deep_i, deep_results, recommender_calls, ai_recommendations, deep_outcome,
          provider_class, prov_pc, prov_ops, api_calls, listing, account, prov_ret>>

NoValue == [kind |-> "NoValue"]

\* the variables of a component that takes no part in a specification
FnIdle == args = NoValue /\ ret = NoValue

ScanIdle ==
    /\ glue = <<>>
    /\ provider_client = "None"
    /\ job_names = <<>>
    /\ scan_pc = "idle"
    /\ futures = <<>>
    /\ yielded = {}
    /\ results = <<>>
    /\ error_log = {}
    /\ scan_exc = NoValue

DeepIdle ==
    /\ preliminary_result = NoValue
    /\ deep_pc = "idle"
    /\ tasks = <<>>
    /\ task_state = <<>>
    /\ deep_i = 0
    /\ deep_results = <<>>
    /\ recommender_calls = <<>>
    /\ ai_recommendations = NoValue
    /\ deep_outcome = NoValue

ProvIdle ==
    /\ provider_class = "None"
    /\ prov_pc = "idle"
    /\ prov_ops = 0
    /\ api_calls = EmptyBag
    /\ listing = NoValue
    /\ account = NoValue
    /\ prov_ret = NoValue

-----------------------------------------------------------------------------
(* Bounds of the model                                                     *)

TicksPerDay == 2
MaxRuns == 2
MaxJobs == 2
PoolJobs == 11
MaxOps == 2
MaxPages == 53

-----------------------------------------------------------------------------
(* Exact fractions standing for Python floats                              *)

RECURSIVE GCD(_, _)
GCD(a, b) == IF b = 0 THEN a ELSE GCD(b, a % b)

Abs(n) == IF n < 0 THEN 0 - n ELSE n

Frac(n, d) ==
    LET g == GCD(Abs(n), Abs(d))
        s == IF d < 0 THEN 0 - 1 ELSE 1
    IN  <<(s * n) \div g, (s * d) \div g>>

FracInt(n) == <<n, 1>>
FracMul(a, b) == Frac(a[1] * b[1], a[2] * b[2])
FracDiv(a, b) == Frac(a[1] * b[2], a[2] * b[1])
FracGt(a, b) == a[1] * b[2] > b[1] * a[2]
FracIsZero(a) == a[1] = 0

-----------------------------------------------------------------------------
(* Python built-ins                                                        *)

\* dict.get(key, default)
DictGet(d, key, default) == IF key \in d.keys THEN d[key] ELSE default

\* datetime.replace(tzinfo=None): keeps the wall-clock reading, drops the zone
ReplaceTzinfoNone(dt) == [wall |-> dt.wall, aware |-> FALSE]

\* (a - b).days for naive datetimes: timedelta.days is the floor
DaysBetween(a, b) == (a.wall - b.wall) \div TicksPerDay

RECURSIVE SumSeq(_)
SumSeq(s) == IF s = <<>> THEN 0 ELSE Head(s) + SumSeq(Tail(s))

-----------------------------------------------------------------------------
(* JobCategorizer.categorize_by_idle_time                                  *)

\* variant: the latest SUCCEEDED run when there is one
LastRunUnlessFailed(job_runs) ==
    LET ok == SelectSeq(job_runs, LAMBDA r : r.JobRunState = "SUCCEEDED")
        src == IF ok = <<>> THEN job_runs ELSE ok
        best == CHOOSE i \in 1..Len(src) :
                  /\ \A j \in 1..Len(src) : src[j].StartedOn.wall <= src[i].StartedOn.wall
                  /\ \A j \in 1..(i - 1) : src[j].StartedOn.wall < src[i].StartedOn.wall
    IN  src[best]

\* max(job_runs, key=lambda x: x['StartedOn']): the first run with the
\* greatest StartedOn
LastRun(job_runs) ==
    LET best == CHOOSE i \in 1..Len(job_runs) :
                  /\ \A j \in 1..Len(job_runs) :
                        job_runs[j].StartedOn.wall <= job_runs[i].StartedOn.wall
                  /\ \A j \in 1..(i - 1) :
                        job_runs[j].StartedOn.wall < job_runs[i].StartedOn.wall
    IN  job_runs[best]

\* variant: thresholds exclusive
IdleBucketStrict(days_idle) ==
    IF days_idle < 7 THEN [category |-> "ACTIVE", priority |-> "LOW"]
    ELSE IF days_idle < 30 THEN [category |-> "RECENT", priority |-> "LOW"]
    ELSE IF days_idle < 90 THEN [category |-> "INACTIVE", priority |-> "MEDIUM"]
    ELSE [category |-> "ABANDONED", priority |-> "HIGH"]

\* the if/elif chain over days_idle
IdleBucket(days_idle) ==
    IF days_idle <= 7 THEN [category |-> "ACTIVE", priority |-> "LOW"]
    ELSE IF days_idle <= 30 THEN [category |-> "RECENT", priority |-> "LOW"]
    ELSE IF days_idle <= 90 THEN [category |-> "INACTIVE", priority |-> "MEDIUM"]
    ELSE [category |-> "ABANDONED", priority |-> "HIGH"]

categorize_by_idle_time(job_details, job_runs, now) ==
    IF job_runs = <<>>
    THEN LET created_time == ReplaceTzinfoNone(DictGet(job_details, "CreatedOn", now))
         IN  [category |-> "NEVER_RUN",
              days_idle |-> DaysBetween(now, created_time),
              priority |-> "CRITICAL",
              last_run_status |-> "None"]
    ELSE LET last_run == LastRun(job_runs)
             last_run_time == ReplaceTzinfoNone(last_run.StartedOn)
             days_idle == DaysBetween(now, last_run_time)
             bucket == IdleBucket(days_idle)
         IN  [category |-> bucket.category,
              days_idle |-> days_idle,
              priority |-> bucket.priority,
              last_run_status |-> last_run.JobRunState]

-----------------------------------------------------------------------------
(* Inputs: what the Glue API serves and the clock                          *)

\* datetime.now(): naive local time
Now == [wall |-> 200 * TicksPerDay, aware |-> FALSE]

\* whole days before Now at which a run may have started (-1: clock skew),
\* on both sides of every threshold of the categorizer
IdleDaySamples == {0 - 1, 0, 7, 8, 30, 31, 90, 91}

StartTimes ==
    { [wall |-> Now.wall - d * TicksPerDay - o, aware |-> TRUE] :
        d \in IdleDaySamples, o \in 0..(TicksPerDay - 1) }

RunStates == {"SUCCEEDED", "FAILED"}

RunsFor(times, states, execs) ==
    { [keys |-> {"StartedOn", "JobRunState", "ExecutionTime"},
       StartedOn |-> t, JobRunState |-> s, ExecutionTime |-> e] :
        t \in times, s \in states, e \in execs }

SeqsUpTo(S, n) == UNION { [1..k -> S] : k \in 0..n }

JobDetailsFor(names, createds) ==
    { [keys |-> {"Name", "CreatedOn"}, Name |-> n, CreatedOn |-> c] :
        n \in names, c \in createds }

-----------------------------------------------------------------------------
(* SpecCategorize: categorize_by_idle_time over bounded inputs             *)

InitCategorize ==
    /\ args \in { [fn |-> "categorize_by_idle_time", job_details |-> d,
                   job_runs |-> r, now |-> Now] :
                    d \in JobDetailsFor({"etl_a"}, {[wall |-> Now.wall - 3 * TicksPerDay,
                                                     aware |-> TRUE]}),
                    r \in SeqsUpTo(RunsFor(StartTimes, RunStates, {60}), MaxRuns) }
    /\ ret = NoValue
    /\ ScanIdle
    /\ DeepIdle
    /\ ProvIdle

CallCategorize ==
    /\ args.fn = "categorize_by_idle_time"
    /\ ret = NoValue
    /\ ret' = categorize_by_idle_time(args.job_details, args.job_runs, args.now)
    /\ UNCHANGED <<args, scanVars, deepVars, provVars>>

NextCategorize == CallCategorize

SpecCategorize == InitCategorize /\ [][NextCategorize]_vars

-----------------------------------------------------------------------------
(* Claims about categorize_by_idle_time                                    *)

Categories == {"ACTIVE", "RECENT", "INACTIVE", "ABANDONED", "NEVER_RUN"}

\* the greatest wall-clock start among a non-empty sequence of runs
LatestStart(runs) ==
    CHOOSE w \in { runs[i].StartedOn.wall : i \in 1..Len(runs) } :
        \A i \in 1..Len(runs) : runs[i].StartedOn.wall <= w

WholeDaysSince(w) == (args.now.wall - w) \div TicksPerDay

Categorized == args.fn = "categorize_by_idle_time" /\ ret # NoValue

\* C2: the categorizer assigns exactly one of the five categories; NEVER_RUN
\* with priority CRITICAL if and only if the run list is empty; otherwise,
\* with d the whole days since the start of one of the runs, ACTIVE/LOW for
\* d <= 7, RECENT/LOW for 8..30, INACTIVE/MEDIUM for 31..90 and
\* ABANDONED/HIGH for d > 90.
C2_IdleBuckets ==
    Categorized =>
        LET d == ret.days_idle
            is(c, p) == ret.category = c /\ ret.priority = p
        IN  /\ ret.category \in Categories
            /\ (ret.category = "NEVER_RUN") <=> (args.job_runs = <<>>)
            /\ (ret.category = "NEVER_RUN") => (ret.priority = "CRITICAL")
            /\ args.job_runs # <<>> =>
                /\ \E i \in 1..Len(args.job_runs) :
                      d = WholeDaysSince(args.job_runs[i].StartedOn.wall)
                /\ (d <= 7) => is("ACTIVE", "LOW")
                /\ (8 <= d /\ d <= 30) => is("RECENT", "LOW")
                /\ (31 <= d /\ d <= 90) => is("INACTIVE", "MEDIUM")
                /\ (d > 90) => is("ABANDONED", "HIGH")

\* C2 witness: a job whose run started exactly 7 days ago is ACTIVE and one
\* whose only run started 91 days ago is ABANDONED (here: the former).
C2_Witness ==
    /\ Categorized
    /\ Len(args.job_runs) = 1
    /\ ret.days_idle = 7
    /\ ret.category = "ACTIVE"

SucceededRuns == SelectSeq(args.job_runs, LAMBDA r : r.JobRunState = "SUCCEEDED")

\* C3 as stated: for a job with a successful run, days_idle is the whole
\* days since the last SUCCEEDED run; runs in another state play no part.
C3_SinceLastSuccessfulRun ==
    (Categorized /\ SucceededRuns # <<>>) =>
        /\ ret.days_idle = WholeDaysSince(LatestStart(SucceededRuns))
        /\ ret.category = IdleBucket(WholeDaysSince(LatestStart(SucceededRuns))).category

\* C3 amended: for a job with runs, days_idle is the whole days since the
\* most recently started run whatever its JobRunState, and last_run_status
\* is the state of a run that started then.
C3_SinceLastRunOfAnyState ==
    (Categorized /\ args.job_runs # <<>>) =>
        /\ ret.days_idle = WholeDaysSince(LatestStart(args.job_runs))
        /\ \E i \in 1..Len(args.job_runs) :
              /\ args.job_runs[i].StartedOn.wall = LatestStart(args.job_runs)
              /\ args.job_runs[i].JobRunState = ret.last_run_status

\* C3 witness: the latest run FAILED today, an older one SUCCEEDED more than
\* 90 days ago, and the job is categorized ACTIVE with status FAILED.
C3_Witness ==
    /\ Categorized
    /\ SucceededRuns # <<>>
    /\ WholeDaysSince(LatestStart(SucceededRuns)) > 90
    /\ ret.category = "ACTIVE"
    /\ ret.last_run_status = "FAILED"

-----------------------------------------------------------------------------
(* CostCalculator                                                          *)

WORKER_COSTS ==
    ("Standard" :> Frac(44, 100)) @@ ("G.1X" :> Frac(44, 100)) @@
    ("G.2X" :> Frac(88, 100)) @@ ("G.4X" :> Frac(176, 100)) @@
    ("G.8X" :> Frac(352, 100)) @@ ("Z.2X" :> Frac(100, 100))

USD_TO_BRL == Frac(52, 10)

\* WORKER_COSTS.get(worker_type, 0.44)
WorkerRate(worker_type) ==
    IF worker_type \in DOMAIN WORKER_COSTS THEN WORKER_COSTS[worker_type]
    ELSE Frac(44, 100)

\* variant: NumberOfWorkers wins over MaxCapacity
CapacityWorkersFirst(job_details) ==
    LET num_workers == DictGet(job_details, "NumberOfWorkers", 2)
        max_capacity == DictGet(job_details, "MaxCapacity", num_workers)
    IN  IF num_workers # 0 THEN num_workers ELSE max_capacity

\* max_capacity or num_workers
Capacity(job_details) ==
    LET num_workers == DictGet(job_details, "NumberOfWorkers", 2)
        max_capacity == DictGet(job_details, "MaxCapacity", num_workers)
    IN  IF max_capacity # 0 THEN max_capacity ELSE num_workers

\* if run.get("ExecutionTime"): the key is present and its value is not 0
HasExecutionTime(run) == "ExecutionTime" \in run.keys /\ run.ExecutionTime # 0

\* variant: every run counts, a missing ExecutionTime as 0
ExecutionTimesOfAllRuns(job_runs) ==
    [i \in 1..Len(job_runs) |-> DictGet(job_runs[i], "ExecutionTime", 0)]

\* [run.get("ExecutionTime", 0) for run in job_runs if run.get("ExecutionTime")]
ExecutionTimes(job_runs) ==
    LET kept == SelectSeq(job_runs, HasExecutionTime)
    IN  [i \in 1..Len(kept) |-> DictGet(kept[i], "ExecutionTime", 0)]

quick_cost_estimate(job_details, job_runs) ==
    LET worker_type == DictGet(job_details, "WorkerType", "Standard")
        capacity == Capacity(job_details)
        hourly_cost == FracMul(WorkerRate(worker_type), FracInt(capacity))
        execution_times == ExecutionTimes(job_runs)
        avg_hours == FracDiv(FracDiv(FracInt(SumSeq(execution_times)),
                                     FracInt(Len(execution_times))),
                             FracInt(3600))
        monthly_cost ==
            IF job_runs # <<>> /\ execution_times # <<>>
            THEN FracMul(FracMul(hourly_cost, avg_hours), FracInt(30))
            ELSE FracInt(0)
    IN  [hourly_cost_usd |-> hourly_cost,
         estimated_monthly_usd |-> monthly_cost,
         estimated_monthly_brl |-> FracMul(monthly_cost, USD_TO_BRL)]

-----------------------------------------------------------------------------
(* SpecCost: quick_cost_estimate over bounded inputs                       *)

WorkerTypes == {"Standard", "G.1X", "G.2X", "G.4X", "G.8X", "Z.2X", "G.025X"}

\* job details as get_job serves them, restricted to the keys the cost
\* estimate reads; NumberOfWorkers is at least 1 when present and
\* MaxCapacity may be served as 0
CostJobDetails ==
    { [keys |-> k, WorkerType |-> w, NumberOfWorkers |-> n, MaxCapacity |-> m] :
        k \in SUBSET {"WorkerType", "NumberOfWorkers", "MaxCapacity"},
        w \in WorkerTypes, n \in 1..2, m \in {0, 1, 3} }

CostRuns ==
    RunsFor({[wall |-> Now.wall, aware |-> TRUE]}, RunStates, {0, 1800, 7200})
    \cup { [keys |-> {"StartedOn", "JobRunState"}, StartedOn |-> [wall |-> Now.wall, aware |-> TRUE],
            JobRunState |-> "FAILED", ExecutionTime |-> 0] }

InitCost ==
    /\ args \in { [fn |-> "quick_cost_estimate", job_details |-> d, job_runs |-> r] :
                    d \in CostJobDetails, r \in SeqsUpTo(CostRuns, MaxRuns) }
    /\ ret = NoValue
    /\ ScanIdle
    /\ DeepIdle
    /\ ProvIdle

CallCost ==
    /\ args.fn = "quick_cost_estimate"
    /\ ret = NoValue
    /\ ret' = quick_cost_estimate(args.job_details, args.job_runs)
    /\ UNCHANGED <<args, scanVars, deepVars, provVars>>

NextCost == CallCost

SpecCost == InitCost /\ [][NextCost]_vars

-----------------------------------------------------------------------------
(* Claims about quick_cost_estimate                                        *)

Costed == args.fn = "quick_cost_estimate" /\ ret # NoValue

\* the indices of the runs that report a non-zero ExecutionTime
TimedRuns ==
    { i \in 1..Len(args.job_runs) :
        /\ "ExecutionTime" \in args.job_runs[i].keys
        /\ args.job_runs[i].ExecutionTime # 0 }

RECURSIVE TotalTime(_)
TotalTime(I) ==
    IF I = {} THEN 0
    ELSE LET i == CHOOSE x \in I : TRUE
         IN  args.job_runs[i].ExecutionTime + TotalTime(I \ {i})

TableRatePer100 ==
    LET d == args.job_details
        w == IF "WorkerType" \in d.keys THEN d.WorkerType ELSE "Standard"
    IN  CASE w \in {"Standard", "G.1X"} -> 44
          [] w = "G.2X" -> 88
          [] w = "G.4X" -> 176
          [] w = "G.8X" -> 352
          [] w = "Z.2X" -> 100
          [] OTHER -> 44

ClaimedCapacity ==
    LET d == args.job_details
    IN  IF "MaxCapacity" \in d.keys /\ d.MaxCapacity # 0 THEN d.MaxCapacity
        ELSE IF "NumberOfWorkers" \in d.keys THEN d.NumberOfWorkers
        ELSE 2

\* C10: hourly cost = table rate (0.44 for an unknown type) x capacity
\* (MaxCapacity when non-zero, else NumberOfWorkers, default 2); monthly USD
\* = hourly x average duration in hours of the runs that report one x 30;
\* monthly BRL = monthly USD x 5.2; and the monthly cost is 0 exactly when
\* no run has a non-zero ExecutionTime.
C10_CostFormula ==
    Costed =>
        LET hourly == Frac(TableRatePer100 * ClaimedCapacity, 100)
            n == Cardinality(TimedRuns)
            total == TotalTime(TimedRuns)
            monthly == IF n = 0 THEN <<0, 1>>
                       ELSE Frac(hourly[1] * total * 30, hourly[2] * n * 3600)
        IN  /\ ret.hourly_cost_usd = hourly
            /\ ret.estimated_monthly_usd = monthly
            /\ ret.estimated_monthly_brl = Frac(monthly[1] * 52, monthly[2] * 10)
            /\ (ret.estimated_monthly_usd[1] = 0) <=> (TimedRuns = {})
            /\ (ret.estimated_monthly_brl[1] = 0) <=> (TimedRuns = {})

\* C10 witness: a G.2X job whose MaxCapacity is 0 and NumberOfWorkers 2, with
\* one run of 0 s and one of 7200 s, costs 1.76 USD an hour and
\* 1.76 x 2 x 30 = 105.6 USD a month.
C10_Witness ==
    /\ Costed
    /\ args.job_details.keys = {"WorkerType", "NumberOfWorkers", "MaxCapacity"}
    /\ args.job_details.WorkerType = "G.2X"
    /\ args.job_details.MaxCapacity = 0
    /\ args.job_details.NumberOfWorkers = 2
    /\ Len(args.job_runs) = 2
    /\ Cardinality(TimedRuns) = 1
    /\ ret.hourly_cost_usd = <<44, 25>>
    /\ ret.estimated_monthly_usd = <<528, 5>>

-----------------------------------------------------------------------------
(* Python strings, optional values and call outcomes                       *)

PyNone == <<>>
Some(v) == <<v>>

Return(v) == [ok |-> TRUE, value |-> v]
Raise(type, what, job) == [ok |-> FALSE, exc |-> [type |-> type, what |-> what, job |-> job]]

UpperLetters == "ABCDEFGHIJKLMNOPQRSTUVWXYZ"
LowerLetters == "abcdefghijklmnopqrstuvwxyz"
Digits == "0123456789"

CharAt(s, i) == SubSeq(s, i, i)
CharIn(c, alphabet) == \E i \in 1..Len(alphabet) : CharAt(alphabet, i) = c

LowerChar(c) ==
    IF CharIn(c, UpperLetters)
    THEN CharAt(LowerLetters, CHOOSE i \in 1..Len(UpperLetters) : CharAt(UpperLetters, i) = c)
    ELSE c

\* str.lower()
RECURSIVE Lower(_)
Lower(s) == IF Len(s) = 0 THEN "" ELSE LowerChar(CharAt(s, 1)) \o Lower(SubSeq(s, 2, Len(s)))

\* sub in s
Contains(s, sub) ==
    \E i \in 1..(Len(s) - Len(sub) + 1) : SubSeq(s, i, i + Len(sub) - 1) = sub

\* str.endswith
EndsWith(s, suffix) ==
    Len(s) >= Len(suffix) /\ SubSeq(s, Len(s) - Len(suffix) + 1, Len(s)) = suffix

\* round(x, 2), ties to even
Round2(x) ==
    LET whole == x[1] \div x[2]
        rest == x[1] % x[2]
        q == 100 * whole + (100 * rest) \div x[2]
        r == (100 * rest) % x[2]
        up == IF 2 * r > x[2] THEN 1 ELSE IF 2 * r = x[2] THEN q % 2 ELSE 0
    IN  Frac(q + up, 100)

-----------------------------------------------------------------------------
(* utils/validators.py and QuickCodeAnalyzer                               *)

\* re.match(r"^[a-zA-Z][a-zA-Z0-9_-]*$", job_name), for names without a
\* line break
MatchesNamingConvention(job_name) ==
    /\ Len(job_name) >= 1
    /\ CharIn(CharAt(job_name, 1), UpperLetters \o LowerLetters)
    /\ \A i \in 2..Len(job_name) :
          CharIn(CharAt(job_name, i), UpperLetters \o LowerLetters \o Digits \o "_-")

dev_patterns == <<"test", "tmp", "temp", "dev", "debug", "sample">>

validate_job_name(job_name) ==
    LET name_lower == Lower(job_name)
        when(cond, issue) == IF cond THEN <<issue>> ELSE <<>>
        found == SelectSeq(dev_patterns, LAMBDA pattern : Contains(name_lower, pattern))
    IN  when(Len(job_name) < 3, "Job name too short (less than 3 characters)")
        \o when(Len(job_name) > 255, "Job name too long (more than 255 characters)")
        \o [i \in 1..Len(found) |->
                "Development/test pattern '" \o found[i] \o "' found in job name"]
        \o when(~MatchesNamingConvention(job_name),
                "Job name doesn't follow standard naming convention (should start "
                \o "with letter, contain only letters, numbers, underscores, hyphens)")
        \o when(Contains(job_name, " "), "Job name contains spaces")

infer_purpose_from_name(job_name) ==
    LET name_lower == Lower(job_name)
        any(terms) == \E term \in terms : Contains(name_lower, term)
    IN  IF any({"etl", "extract", "transform", "load", "pipeline"}) THEN "ETL Pipeline"
        ELSE IF any({"report", "analytics", "agg", "dashboard", "metric"})
             THEN "Analytics/Reporting"
        ELSE IF any({"clean", "quality", "validate", "check", "audit"}) THEN "Data Quality"
        ELSE IF any({"test", "dev", "temp", "tmp", "debug", "sample"})
             THEN "Development/Testing"
        ELSE IF any({"model", "train", "predict", "ml", "ai", "feature"})
             THEN "Machine Learning"
        ELSE IF any({"migrate", "migration", "import", "export", "sync"})
             THEN "Data Migration"
        ELSE "Unknown"

\* quick_code_analysis builds and returns a plain dict, not a
\* QuickCodeAnalysis
quick_code_analysis(job_details) ==
    LET command == DictGet(job_details, "Command", [keys |-> {}])
        script_location == DictGet(command, "ScriptLocation", "")
        job_name == DictGet(job_details, "Name", "")
    IN  [pytype |-> "dict",
         keys |-> {"has_script", "script_location", "inferred_purpose", "naming_issues"},
         has_script |-> script_location # "",
         script_location |-> script_location,
         inferred_purpose |-> infer_purpose_from_name(job_name),
         naming_issues |-> validate_job_name(job_name)]

-----------------------------------------------------------------------------
(* utils/aws_utils.py: extract_tags_info                                   *)

\* a dict of tags is a function from tag names to values
TagGet(tags, key, default) == IF key \in DOMAIN tags THEN tags[key] ELSE default

\* the '--tag-' entries of DefaultArguments, stripped of the prefix
TagArguments(default_args) ==
    LET tagged == { k \in DOMAIN default_args : Len(k) >= 6 /\ SubSeq(k, 1, 6) = "--tag-" }
        stripped == { SubSeq(k, 7, Len(k)) : k \in tagged }
    IN  [t \in stripped |-> default_args["--tag-" \o t]]

\* Tags after the loop: the '--tag-' arguments written over the Tags entry
MergedTags(job_details) ==
    LET tags == DictGet(job_details, "Tags", <<>>)
        extra == TagArguments(DictGet(job_details, "DefaultArguments", <<>>))
    IN  [t \in (DOMAIN tags) \cup (DOMAIN extra) |->
            IF t \in DOMAIN extra THEN extra[t] ELSE tags[t]]

extract_tags_info(job_details) ==
    LET tags == MergedTags(job_details)
        pick(a, b) == Lower(TagGet(tags, a, TagGet(tags, b, "unknown")))
    IN  [pytype |-> "TagsInfo",
         environment |-> pick("Environment", "env"),
         team |-> pick("Team", "team"),
         business_domain |-> pick("BusinessDomain", "domain"),
         criticality |-> pick("Criticality", "criticality"),
         owner |-> pick("Owner", "owner")]

\* job_details after extract_tags_info: "tags" is the Tags entry itself
\* when job_details has one, and the loop writes the '--tag-' arguments
\* into it; without a Tags entry the loop writes into a fresh dict
extract_tags_info_leaves(job_details) ==
    IF "Tags" \in job_details.keys
    THEN [job_details EXCEPT !.Tags = MergedTags(job_details)]
    ELSE job_details

-----------------------------------------------------------------------------
(* JobCategorizer.should_analyze_deeply                                    *)

\* obj.name: a dict has no attribute for its keys
HasAttr(obj, name) == obj.pytype # "dict"

\* code_analysis.naming_issues
NamingIssuesOf(code_analysis) ==
    IF HasAttr(code_analysis, "naming_issues")
    THEN Return(code_analysis.naming_issues)
    ELSE Raise("AttributeError", "'dict' object has no attribute 'naming_issues'", "")

should_analyze_deeply(job_details, job_runs, cost_estimate, idle_analysis, code_analysis, tags_info) ==
    LET naming_issues == NamingIssuesOf(code_analysis)
    IN  IF ~naming_issues.ok THEN naming_issues
        ELSE Return(
          [high_cost |-> FracGt(cost_estimate.estimated_monthly_brl, FracInt(500)),
           inactive_expensive |->
               /\ idle_analysis.category \in {"ABANDONED", "INACTIVE"}
               /\ FracGt(cost_estimate.estimated_monthly_brl, FracInt(100)),
           never_run |-> idle_analysis.category = "NEVER_RUN",
           naming_issues |-> Len(naming_issues.value) > 0,
           dev_in_prod |->
               \/ tags_info.environment \in {"dev", "test"}
               \/ Contains(Lower(DictGet(job_details, "Name", "")), "test")])

-----------------------------------------------------------------------------
(* GlueProvider: the calls the scanner makes                               *)

\* variant: every provider object counts as authenticated
is_authenticated_always == TRUE

\* self._client is not None
is_authenticated == provider_client # "None"

get_job_details(job_name) ==
    IF ~is_authenticated
    THEN Raise("AuthenticationError", "Provider not authenticated", "")
    ELSE LET response == glue[job_name].get_job
         IN  IF response.ok THEN Return(response.Job)
             ELSE IF response.code = "EntityNotFoundException"
                  THEN Raise("ProviderError", "Job not found", job_name)
                  ELSE Raise("ProviderError", "Failed to get job details", response.code)

\* variant: only the missing job is handled, other client errors pass
get_recent_runs_unwrapped(job_name) ==
    IF ~is_authenticated
    THEN Raise("AuthenticationError", "Provider not authenticated", "")
    ELSE LET response == glue[job_name].get_job_runs
         IN  IF response.ok THEN Return(response.JobRuns)
             ELSE IF response.code = "EntityNotFoundException" THEN Return(<<>>)
                  ELSE Raise("ClientError", "", response.code)

get_recent_runs(job_name) ==
    IF ~is_authenticated
    THEN Raise("AuthenticationError", "Provider not authenticated", "")
    ELSE LET response == glue[job_name].get_job_runs
         IN  IF response.ok THEN Return(response.JobRuns)
             ELSE IF response.code = "EntityNotFoundException" THEN Return(<<>>)
                  ELSE Raise("ProviderError", "Failed to get job runs", response.code)

\* a call made through a boto3 client
ApiCall(service, op, target, ok) ==
    [service |-> service, op |-> op, target |-> target, ok |-> ok]

\* the bag B with the calls of the sequence added
RECURSIVE AddCalls(_, _)
AddCalls(B, calls) ==
    IF calls = <<>> THEN B
    ELSE AddCalls(B (+) SetToBag({calls[1]}), SubSeq(calls, 2, Len(calls)))

\* the API calls get_job_details makes
get_job_details_calls(job_name) ==
    IF ~is_authenticated THEN <<>>
    ELSE << ApiCall("glue", "get_job", job_name, glue[job_name].get_job.ok) >>

\* the API calls get_recent_runs makes
get_recent_runs_calls(job_name) ==
    IF ~is_authenticated THEN <<>>
    ELSE << ApiCall("glue", "get_job_runs", job_name, glue[job_name].get_job_runs.ok) >>

-----------------------------------------------------------------------------
(* InventoryScanner                                                        *)

max_workers == 10

calculate_avg_execution_time(job_runs) ==
    LET timed == SelectSeq(job_runs,
                    LAMBDA run : /\ DictGet(run, "JobRunState", "None") = "SUCCEEDED"
                                 /\ HasExecutionTime(run))
        execution_times == [i \in 1..Len(timed) |-> timed[i].ExecutionTime]
    IN  IF job_runs = <<>> \/ execution_times = <<>> THEN PyNone
        ELSE LET avg_seconds == FracDiv(FracInt(SumSeq(execution_times)),
                                        FracInt(Len(execution_times)))
             IN  Some(Round2(FracDiv(avg_seconds, FracInt(60))))

\* d.get(key), None when the key is absent
OptGet(d, key) == IF key \in d.keys THEN Some(d[key]) ELSE PyNone

\* str.strip() of blanks
RECURSIVE Strip(_)
Strip(s) ==
    IF Len(s) = 0 THEN ""
    ELSE IF CharAt(s, 1) = " " THEN Strip(SubSeq(s, 2, Len(s)))
    ELSE IF CharAt(s, Len(s)) = " " THEN Strip(SubSeq(s, 1, Len(s) - 1))
    ELSE s

extract_job_config(job_details) ==
    LET command == DictGet(job_details, "Command", [keys |-> {}])
        script_location == DictGet(command, "ScriptLocation", "unknown")
    IN  [glue_version |-> OptGet(job_details, "GlueVersion"),
         worker_type |-> OptGet(job_details, "WorkerType"),
         number_of_workers |-> OptGet(job_details, "NumberOfWorkers"),
         timeout |-> OptGet(job_details, "Timeout"),
         max_retries |-> OptGet(job_details, "MaxRetries"),
         max_capacity |-> OptGet(job_details, "MaxCapacity"),
         allocated_capacity |-> OptGet(job_details, "AllocatedCapacity"),
         description |-> LET description == Strip(DictGet(job_details, "Description", ""))
                         IN  IF description = "" THEN PyNone ELSE Some(description),
         job_mode |-> OptGet(job_details, "JobMode"),
         job_type |-> DictGet(command, "Name", "unknown"),
         execution_class |-> OptGet(job_details, "ExecutionClass"),
         script_type |-> IF EndsWith(script_location, ".ipynb") THEN "notebook" ELSE "script",
         script_location |-> script_location,
         avg_execution_time_minutes |-> PyNone]

\* the body of analyze_job_preliminary once both provider calls have
\* returned
AnalyzeFetched(job_name, job_details, job_runs) ==
    LET job_config == [extract_job_config(job_details) EXCEPT
                          !.avg_execution_time_minutes =
                              calculate_avg_execution_time(job_runs)]
        idle_analysis == categorize_by_idle_time(job_details, job_runs, Now)
        cost_estimate == quick_cost_estimate(job_details, job_runs)
        tags_info == extract_tags_info(job_details)
        code_analysis == quick_code_analysis(job_details)
        deep_analysis_reasons ==
            should_analyze_deeply(job_details, job_runs, cost_estimate, idle_analysis,
                                  code_analysis, tags_info)
    IN  IF ~deep_analysis_reasons.ok THEN deep_analysis_reasons
        ELSE Return([job_name |-> job_name,
                     job_config |-> job_config,
                     idle_analysis |-> idle_analysis,
                     cost_estimate |-> cost_estimate,
                     tags_info |-> tags_info,
                     code_analysis |-> code_analysis,
                     recent_runs_count |-> Len(job_runs),
                     candidate_for_deep_analysis |-> deep_analysis_reasons.value])

analyze_job_preliminary(job_name) ==
    LET job_details == get_job_details(job_name)
    IN  IF ~job_details.ok THEN job_details
        ELSE IF job_details.value.keys = {}
        THEN Raise("Exception", "Could not fetch job details", job_name)
        ELSE LET job_runs == get_recent_runs(job_name)
             IN  IF ~job_runs.ok THEN job_runs
                 ELSE AnalyzeFetched(job_name, job_details.value, job_runs.value)

\* variant: the quick analysis fetches the script it names
quick_code_analysis_downloads(job_details) ==
    << ApiCall("s3", "get_object",
               DictGet(DictGet(job_details, "Command", [keys |-> {}]), "ScriptLocation", ""),
               TRUE) >>

\* the API calls of the analyses that follow the two provider calls: the
\* categorizer, the cost calculator, extract_tags_info and the quick code
\* analyzer hold no client and work on job_details and job_runs alone
quick_code_analysis_calls(job_details) == <<>>

\* the API calls analyze_job_preliminary makes, in order
analyze_job_preliminary_calls(job_name) ==
    LET job_details == get_job_details(job_name)
    IN  get_job_details_calls(job_name)
        \o (IF job_details.ok /\ job_details.value.keys # {}
            THEN get_recent_runs_calls(job_name)
                 \o (IF get_recent_runs(job_name).ok
                     THEN quick_code_analysis_calls(job_details.value)
                     ELSE <<>>)
            ELSE <<>>)

\* the classes "except Exception" catches among those the model raises
ExceptionClasses ==
    {"Exception", "AttributeError", "KeyError", "GalileoError", "ProviderError",
     "AuthenticationError"}

\* variant: except GalileoError
CaughtIfGalileoError(exc) == exc.type \in {"GalileoError", "ProviderError", "AuthenticationError"}

\* except Exception as e
Caught(exc) == exc.type \in ExceptionClasses

Running == { i \in 1..Len(futures) : futures[i].state = "RUNNING" }
Pending == { i \in 1..Len(futures) : futures[i].state = "PENDING" }

\* variant: a thread per work item
WorkerAlwaysFree == TRUE

\* ThreadPoolExecutor(max_workers=10): a work item starts when one of the
\* at most max_workers threads is free
WorkerFree == Cardinality(Running) < max_workers

\* variant: the work item reads the loop variable when it runs
SubmittedJobLateBound(k) == job_names[Len(job_names)]

\* executor.submit(self.analyze_job_preliminary, job_name) for the k-th name
SubmittedJob(k) == job_names[k]

\* one iteration of the dict comprehension: submit the next job name
Submit ==
    /\ scan_pc = "submit"
    /\ Len(futures) < Len(job_names)
    /\ futures' = Append(futures, [job_name |-> SubmittedJob(Len(futures) + 1),
                                   state |-> "PENDING", outcome |-> NoValue])
    /\ UNCHANGED <<fnVars, deepVars, provVars, glue, provider_client,
                   job_names, scan_pc, yielded, results,
                   error_log, scan_exc>>

\* the comprehension is exhausted: enter the as_completed loop
EnterAsCompleted ==
    /\ scan_pc = "submit"
    /\ Len(futures) = Len(job_names)
    /\ scan_pc' = "as_completed"
    /\ UNCHANGED <<fnVars, deepVars, provVars, glue, provider_client,
                   job_names, futures, yielded, results,
                   error_log, scan_exc>>

\* a free pool thread takes the oldest queued work item
WorkerStart(i) ==
    /\ i \in Pending
    /\ \A j \in Pending : i <= j
    /\ WorkerFree
    /\ futures' = [futures EXCEPT ![i].state = "RUNNING"]
    /\ UNCHANGED <<fnVars, deepVars, provVars, glue, provider_client,
                   job_names, scan_pc, yielded, results,
                   error_log, scan_exc>>

\* the thread runs analyze_job_preliminary to its return or exception
WorkerRun(i) ==
    /\ i \in Running
    /\ futures' = [futures EXCEPT ![i].state = "FINISHED",
                                  ![i].outcome = analyze_job_preliminary(futures[i].job_name)]
    /\ api_calls' = AddCalls(api_calls, analyze_job_preliminary_calls(futures[i].job_name))
    /\ UNCHANGED <<fnVars, deepVars, glue, provider_client, job_names, scan_pc, yielded,
                   results, error_log, scan_exc, provider_class, prov_pc, prov_ops, listing,
                   account, prov_ret>>

\* one iteration of "for future in as_completed(future_to_job)"
Collect(i) ==
    /\ scan_pc = "as_completed"
    /\ i \in 1..Len(futures)
    /\ futures[i].state = "FINISHED"
    /\ i \notin yielded
    /\ yielded' = yielded \cup {i}
    /\ LET outcome == futures[i].outcome
       IN  IF outcome.ok
           THEN /\ results' = Append(results, outcome.value)
                /\ UNCHANGED <<error_log, scan_pc, scan_exc>>
           ELSE IF Caught(outcome.exc)
           THEN /\ error_log' = error_log \cup {<<i, job_names[i], outcome.exc>>}
                /\ UNCHANGED <<results, scan_pc, scan_exc>>
           ELSE /\ scan_pc' = "raised"
                /\ scan_exc' = outcome.exc
                /\ UNCHANGED <<results, error_log>>
    /\ UNCHANGED <<fnVars, deepVars, provVars, glue, provider_client,
                   job_names, futures>>

\* as_completed is exhausted, the executor shuts down, scan_jobs returns
ScanReturn ==
    /\ scan_pc = "as_completed"
    /\ yielded = 1..Len(futures)
    /\ scan_pc' = "returned"
    /\ UNCHANGED <<fnVars, deepVars, provVars, glue, provider_client,
                   job_names, futures, yielded, results,
                   error_log, scan_exc>>

NextScan ==
    \/ Submit
    \/ EnterAsCompleted
    \/ \E i \in 1..Len(futures) : WorkerStart(i)
    \/ \E i \in 1..Len(futures) : WorkerRun(i)
    \/ \E i \in 1..Len(futures) : Collect(i)
    \/ ScanReturn

-----------------------------------------------------------------------------
(* Spec: scan_jobs over short job lists and every kind of API answer       *)

ScanNames == {"etl_sales", "Test Job"}

Range(f) == { f[x] : x \in DOMAIN f }

\* the Job structure get_job serves for a job
JobOf(name) ==
    [keys |-> {"Name", "Command", "WorkerType", "NumberOfWorkers", "CreatedOn",
               "DefaultArguments", "GlueVersion"},
     Name |-> name,
     Command |-> [keys |-> {"Name", "ScriptLocation"}, Name |-> "glueetl",
                  ScriptLocation |-> "s3://scripts/" \o name \o ".py"],
     WorkerType |-> "G.2X",
     NumberOfWorkers |-> 2,
     MaxCapacity |-> 0,
     GlueVersion |-> "3.0",
     CreatedOn |-> [wall |-> Now.wall - 100 * TicksPerDay, aware |-> TRUE],
     DefaultArguments |-> ("--tag-env" :> "DEV") @@ ("--job-language" :> "python")]

OneRun(days_ago, state, seconds) ==
    [keys |-> {"StartedOn", "JobRunState", "ExecutionTime"},
     StartedOn |-> [wall |-> Now.wall - days_ago * TicksPerDay, aware |-> TRUE],
     JobRunState |-> state, ExecutionTime |-> seconds]

GetJobAnswers(name) ==
    { [ok |-> TRUE, Job |-> JobOf(name)],
      [ok |-> FALSE, code |-> "EntityNotFoundException"],
      [ok |-> FALSE, code |-> "ThrottlingException"] }

GetJobRunsAnswers ==
    { [ok |-> TRUE, JobRuns |-> <<>>],
      [ok |-> TRUE, JobRuns |-> <<OneRun(8, "SUCCEEDED", 7200)>>],
      [ok |-> FALSE, code |-> "EntityNotFoundException"],
      [ok |-> FALSE, code |-> "AccessDeniedException"] }

GlueWorlds(names) ==
    { w \in [names -> UNION { [get_job : GetJobAnswers(n), get_job_runs : GetJobRunsAnswers] :
                                  n \in names }] :
        \A n \in names : w[n].get_job \in GetJobAnswers(n) }

\* scan_jobs(job_names) on a provider whose construction completed
InitScanWith(lists, worlds(_)) ==
    /\ job_names \in lists
    /\ glue \in worlds(Range(job_names))
    /\ provider_client = "glue"
    /\ provider_class = "GlueProvider"
    /\ prov_pc = "ready"
    /\ prov_ops = 0
    /\ api_calls = EmptyBag
    /\ listing = NoValue
    /\ account = NoValue
    /\ prov_ret = NoValue
    /\ scan_pc = "submit"
    /\ futures = <<>>
    /\ yielded = {}
    /\ results = <<>>
    /\ error_log = {}
    /\ scan_exc = NoValue
    /\ FnIdle
    /\ DeepIdle

Init == InitScanWith(SeqsUpTo(ScanNames, MaxJobs), GlueWorlds)

Next == NextScan

Spec == Init /\ [][Next]_vars

-----------------------------------------------------------------------------
(* SpecPool: scan_jobs over more jobs than the pool has threads            *)

PoolNames == [i \in 1..PoolJobs |-> "job_" \o ToString(i)]

\* the API throttles the burst of calls: every get_job is refused
PoolWorld(names) ==
    { [n \in names |->
        [get_job |-> [ok |-> FALSE, code |-> "ThrottlingException"],
         get_job_runs |-> [ok |-> FALSE, code |-> "ThrottlingException"]]] }

InitPool == InitScanWith({PoolNames}, PoolWorld)

SpecPool == InitPool /\ [][NextScan]_vars

-----------------------------------------------------------------------------
(* Claims about scan_jobs                                                  *)

Finished == { i \in 1..Len(futures) : futures[i].state = "FINISHED" }

ResultAt(r) == results[r]

\* both provider calls for the k-th job name return
FetchSucceeds(k) ==
    get_job_details(job_names[k]).ok /\ get_recent_runs(job_names[k]).ok

\* C1: when scan_jobs has returned, the list holds a result for every job
\* name whose get_job_details and get_recent_runs calls both succeeded.
C1_ResultForEveryFetchedJob ==
    scan_pc = "returned" =>
        \A k \in 1..Len(job_names) :
            FetchSucceeds(k) =>
                \E r \in 1..Len(results) : ResultAt(r).job_name = job_names[k]

\* C4: scan_jobs never raises because a job's analysis raised; when it has
\* returned, every job whose analysis raised was logged and left out, the
\* result of every job whose analysis returned is in the list, the list is
\* no longer than the input and holds only results of input job names.
C4_FailedJobsLoggedAndOmitted ==
    /\ scan_pc # "raised"
    /\ scan_exc = NoValue
    /\ Len(results) <= Len(job_names)
    /\ \A r \in 1..Len(results) : ResultAt(r).job_name \in Range(job_names)
    /\ scan_pc = "returned" =>
        /\ \A i \in 1..Len(futures) :
              IF futures[i].outcome.ok
              THEN \E r \in 1..Len(results) : ResultAt(r) = futures[i].outcome.value
              ELSE <<i, job_names[i], futures[i].outcome.exc>> \in error_log
        /\ Len(results) = Cardinality({ i \in 1..Len(futures) : futures[i].outcome.ok })
        /\ Cardinality(error_log) =
              Cardinality({ i \in 1..Len(futures) : ~futures[i].outcome.ok })

\* C4 witness: a scan of two jobs has returned although the analysis of
\* both raised, one on the provider call and one after it.
C4_Witness ==
    /\ scan_pc = "returned"
    /\ Len(job_names) = 2
    /\ \E i, j \in 1..Len(futures) :
          /\ ~futures[i].outcome.ok /\ futures[i].outcome.exc.type = "ProviderError"
          /\ ~futures[j].outcome.ok /\ futures[j].outcome.exc.type = "AttributeError"
    /\ Cardinality(error_log) = 2

\* C5: at most max_workers (10) analyses are executing at any moment, and
\* the futures are the input's job names, each submitted once and in order.
C5_BoundedPoolSubmitsOnce ==
    /\ Cardinality(Running) <= max_workers
    /\ Len(futures) <= Len(job_names)
    /\ \A i \in 1..Len(futures) : futures[i].job_name = job_names[i]
    /\ scan_pc \in {"as_completed", "returned"} => Len(futures) = Len(job_names)

\* C5 witness: ten analyses are executing while an eleventh job waits in
\* the queue.
C5_Witness ==
    /\ Cardinality(Running) = max_workers
    /\ Pending # {}
    /\ Len(job_names) > max_workers

\* what a scan of the one job name yields for it
ScannedAlone(name) == analyze_job_preliminary(name)

-----------------------------------------------------------------------------
(* DeepScanner.analyze_job_deeply                                          *)

\* the names bound in the namespace of deep_scanner.py: its imports and
\* its class
DeepScannerGlobals ==
    {"asyncio", "time", "ThreadPoolExecutor", "List", "Optional", "Dict", "Any",
     "JobAnalysisResult", "DeepAnalysisResult", "GlueProvider", "DeepCodeAnalyzer",
     "PerformanceAnalyzer", "DependencyAnalyzer", "AIRecommender", "setup_logger",
     "DeepScanner"}

\* evaluating a global name of deep_scanner.py
LookupGlobal(name) ==
    IF name \in DeepScannerGlobals THEN Return(name)
    ELSE Raise("NameError", "name is not defined", name)

\* the dataclasses of core/models.py built with no argument
CodeAnalysis ==
    [pytype |-> "CodeAnalysis", script_content |-> PyNone, complexity_score |-> PyNone,
     performance_issues |-> PyNone, security_issues |-> PyNone]

PerformanceAnalysis ==
    [pytype |-> "PerformanceAnalysis", avg_cpu_utilization |-> PyNone,
     avg_memory_utilization |-> PyNone, efficiency_score |-> PyNone,
     bottlenecks |-> PyNone]

DependencyAnalysis ==
    [pytype |-> "DependencyAnalysis", input_sources |-> PyNone,
     output_destinations |-> PyNone, schedule_conflicts |-> PyNone]

AIRecommendations ==
    [pytype |-> "AIRecommendations", optimization_suggestions |-> PyNone,
     cost_reduction_opportunities |-> PyNone, modernization_recommendations |-> PyNone,
     risk_assessment |-> PyNone, priority_score |-> PyNone,
     estimated_savings_brl |-> PyNone]

TaskOrder == <<"code", "performance", "dependencies">>

EmptyClassOf(analysis_type) ==
    CASE analysis_type = "code" -> "CodeAnalysis"
      [] analysis_type = "performance" -> "PerformanceAnalysis"
      [] analysis_type = "dependencies" -> "DependencyAnalysis"

EmptyOf(analysis_type) ==
    CASE analysis_type = "code" -> CodeAnalysis
      [] analysis_type = "performance" -> PerformanceAnalysis
      [] analysis_type = "dependencies" -> DependencyAnalysis

\* _get_empty_analysis: the class name is looked up in the module's globals
get_empty_analysis(analysis_type) ==
    LET class == LookupGlobal(EmptyClassOf(analysis_type))
    IN  IF class.ok THEN Return(EmptyOf(analysis_type)) ELSE class

\* what analyze_code_async can end with: it reads job_config.script_location
\* outside any try, returns CodeAnalysis() without a script location or
\* when the download fails, and the findings otherwise
CodeTaskOutcomes(prelim) ==
    IF prelim.job_config = PyNone
    THEN { Raise("AttributeError",
                 "'NoneType' object has no attribute 'script_location'", "") }
    ELSE IF prelim.job_config[1].script_location \in {"", "unknown"}
    THEN { Return(CodeAnalysis) }
    ELSE { Return(CodeAnalysis),
           Return([CodeAnalysis EXCEPT !.script_content = Some("import sys"),
                                       !.complexity_score = Some(1),
                                       !.performance_issues = Some(<<>>),
                                       !.security_issues = Some(<<>>)]) }

\* analyze_performance_async: every Exception inside is caught and answered
\* with PerformanceAnalysis()
PerformanceTaskOutcomes(prelim) ==
    { Return(PerformanceAnalysis),
      Return([PerformanceAnalysis EXCEPT !.avg_cpu_utilization = Some(<<20, 1>>),
                                         !.avg_memory_utilization = Some(<<25, 1>>),
                                         !.efficiency_score = Some(<<30, 1>>)]) }

\* analyze_dependencies_async: every Exception inside is caught and answered
\* with DependencyAnalysis()
DependencyTaskOutcomes(prelim) ==
    { Return(DependencyAnalysis),
      Return([DependencyAnalysis EXCEPT !.input_sources = Some(<<"s3://in">>),
                                        !.output_destinations = Some(<<"s3://out">>),
                                        !.schedule_conflicts = Some(<<>>)]) }

TaskOutcomes(name, prelim) ==
    CASE name = "code" -> CodeTaskOutcomes(prelim)
      [] name = "performance" -> PerformanceTaskOutcomes(prelim)
      [] name = "dependencies" -> DependencyTaskOutcomes(prelim)

\* generate_recommendations_async never raises an Exception: it answers with
\* AIRecommendations() when a rule fails and with the filled record otherwise
RecommenderAnswers ==
    { AIRecommendations,
      [AIRecommendations EXCEPT !.optimization_suggestions = Some(<<>>),
                                !.cost_reduction_opportunities = Some(<<>>),
                                !.modernization_recommendations = Some(<<>>),
                                !.risk_assessment = Some("LOW"),
                                !.priority_score = Some(<<0, 1>>),
                                !.estimated_savings_brl = Some(<<0, 1>>)] }

\* asyncio.create_task for the next sub-analysis; nothing is awaited in
\* between, so no task runs before all three exist
DeepCreateTask ==
    /\ deep_pc = "create_tasks"
    /\ Len(tasks) < Len(TaskOrder)
    /\ LET name == TaskOrder[Len(tasks) + 1]
       IN  /\ tasks' = Append(tasks, name)
           /\ task_state' = [task_state EXCEPT ![name].state = "pending"]
    /\ IF Len(tasks) + 1 = Len(TaskOrder)
       THEN deep_pc' = "await" /\ deep_i' = 1
       ELSE UNCHANGED <<deep_pc, deep_i>>
    /\ UNCHANGED <<fnVars, scanVars, provVars, preliminary_result, deep_results, recommender_calls,
                   ai_recommendations, deep_outcome>>

\* the event loop runs a pending task to its end while analyze_job_deeply
\* is suspended in "await task" on a task that is not done
TaskFinish(name) ==
    /\ deep_pc = "await"
    /\ task_state[tasks[deep_i]].state = "pending"
    /\ task_state[name].state = "pending"
    /\ \E outcome \in TaskOutcomes(name, preliminary_result) :
          task_state' = [task_state EXCEPT ![name] = [state |-> "done", outcome |-> outcome]]
    /\ UNCHANGED <<fnVars, scanVars, provVars, preliminary_result, deep_pc, tasks, deep_i,
                   deep_results, recommender_calls, ai_recommendations, deep_outcome>>

\* "results[name] = await task" resumes with the task done; an Exception is
\* answered with _get_empty_analysis(name), whose own exception leaves the
\* handler and ends analyze_job_deeply
DeepAwait ==
    /\ deep_pc = "await"
    /\ LET name == tasks[deep_i]
           done == task_state[name]
           value == IF done.outcome.ok THEN done.outcome
                    ELSE IF Caught(done.outcome.exc) THEN get_empty_analysis(name)
                    ELSE done.outcome
       IN  /\ done.state = "done"
           /\ IF value.ok
              THEN /\ deep_results' = [n \in (DOMAIN deep_results) \cup {name} |->
                                          IF n = name THEN value.value ELSE deep_results[n]]
                   /\ IF deep_i = Len(tasks)
                      THEN deep_pc' = "recommend" /\ UNCHANGED deep_i
                      ELSE deep_i' = deep_i + 1 /\ UNCHANGED deep_pc
                   /\ UNCHANGED deep_outcome
              ELSE /\ deep_pc' = "raised"
                   /\ deep_outcome' = value
                   /\ UNCHANGED <<deep_results, deep_i>>
    /\ UNCHANGED <<fnVars, scanVars, provVars, preliminary_result, tasks, task_state,
                   recommender_calls, ai_recommendations>>

\* await self.ai_recommender.generate_recommendations_async(...)
DeepRecommend ==
    /\ deep_pc = "recommend"
    /\ recommender_calls' =
          Append(recommender_calls,
                 [preliminary_result |-> preliminary_result,
                  code_analysis |-> deep_results["code"],
                  performance_analysis |-> deep_results["performance"],
                  dependency_analysis |-> deep_results["dependencies"]])
    /\ ai_recommendations' \in RecommenderAnswers
    /\ deep_pc' = "build_result"
    /\ UNCHANGED <<fnVars, scanVars, provVars, preliminary_result, tasks, task_state, deep_i,
                   deep_results, deep_outcome>>

\* return DeepAnalysisResult(job_name=..., timestamp=datetime.now(), ...):
\* the name datetime is looked up in the module's globals
DeepBuildResult ==
    /\ deep_pc = "build_result"
    /\ LET datetime == LookupGlobal("datetime")
       IN  IF datetime.ok
           THEN /\ deep_pc' = "returned"
                /\ deep_outcome' =
                      Return([pytype |-> "DeepAnalysisResult",
                              job_name |-> preliminary_result.job_name,
                              preliminary_result |-> preliminary_result,
                              code_analysis |-> deep_results["code"],
                              performance_analysis |-> deep_results["performance"],
                              dependency_analysis |-> deep_results["dependencies"],
                              ai_recommendations |-> ai_recommendations])
           ELSE /\ deep_pc' = "raised"
                /\ deep_outcome' = datetime
    /\ UNCHANGED <<fnVars, scanVars, provVars, preliminary_result, tasks, task_state, deep_i,
                   deep_results, recommender_calls, ai_recommendations>>

NextDeep ==
    \/ DeepCreateTask
    \/ \E name \in Range(TaskOrder) : TaskFinish(name)
    \/ DeepAwait
    \/ DeepRecommend
    \/ DeepBuildResult

-----------------------------------------------------------------------------
(* SpecDeep: analyze_job_deeply over preliminary results                   *)

\* a JobAnalysisResult as the scanner would build it, and one whose
\* job_config was left unset by the caller
PreliminaryResults ==
    { [pytype |-> "JobAnalysisResult", job_name |-> n, job_config |-> c] :
        n \in ScanNames,
        c \in { PyNone,
                Some([script_location |-> "unknown"]),
                Some([script_location |-> "s3://scripts/job.py"]) } }

InitDeep ==
    /\ preliminary_result \in PreliminaryResults
    /\ deep_pc = "create_tasks"
    /\ tasks = <<>>
    /\ task_state = [name \in Range(TaskOrder) |-> [state |-> "none", outcome |-> NoValue]]
    /\ deep_i = 0
    /\ deep_results = <<>>
    /\ recommender_calls = <<>>
    /\ ai_recommendations = NoValue
    /\ deep_outcome = NoValue
    /\ FnIdle
    /\ ScanIdle
    /\ ProvIdle

SpecDeep == InitDeep /\ [][NextDeep]_vars

-----------------------------------------------------------------------------
(* Claims about analyze_job_deeply                                         *)

DeepFinished == deep_pc \in {"returned", "raised"}

\* C7: analyze_job_deeply, called with any preliminary result, ends by
\* returning a DeepAnalysisResult that carries the job_name and the
\* preliminary_result of its input and the code, performance and dependency
\* analyses produced or defaulted for the job.
C7_ReturnsDeepAnalysisResult ==
    DeepFinished =>
        /\ deep_outcome.ok
        /\ deep_outcome.value.pytype = "DeepAnalysisResult"
        /\ deep_outcome.value.job_name = preliminary_result.job_name
        /\ deep_outcome.value.preliminary_result = preliminary_result
        /\ deep_outcome.value.code_analysis = deep_results["code"]
        /\ deep_outcome.value.performance_analysis = deep_results["performance"]
        /\ deep_outcome.value.dependency_analysis = deep_results["dependencies"]

AllTasksDone == \A name \in Range(TaskOrder) : task_state[name].state = "done"

\* C8: the three sub-analyses are all started before any of them is awaited
\* (so none has run before all three exist), and the recommender is invoked
\* exactly once, only after all three have completed or failed, with exactly
\* their three results.
C8_RecommenderOnceAfterAllThree ==
    /\ (deep_pc = "await" \/ \E name \in Range(TaskOrder) : task_state[name].state = "done")
          => tasks = TaskOrder
    /\ Len(recommender_calls) <= 1
    /\ recommender_calls # <<>> =>
          /\ AllTasksDone
          /\ recommender_calls[1].code_analysis = deep_results["code"]
          /\ recommender_calls[1].performance_analysis = deep_results["performance"]
          /\ recommender_calls[1].dependency_analysis = deep_results["dependencies"]
    /\ DeepFinished => Len(recommender_calls) = 1

\* the await loop has dealt with the i-th task
Processed(i) ==
    CASE deep_pc = "create_tasks" -> FALSE
      [] deep_pc = "await" -> i < deep_i
      [] deep_pc = "raised" -> i <= deep_i
      [] OTHER -> TRUE

\* C9: when a sub-analysis task raises an exception, its result is replaced
\* by the empty analysis of the matching type, the other sub-analyses keep
\* the results their tasks returned, and the deep analysis goes on to the
\* recommendation step.
C9_FailedTaskDefaultsToEmpty ==
    (\E i \in 1..Len(tasks) : Processed(i) /\ ~task_state[tasks[i]].outcome.ok) =>
        /\ \A i \in 1..Len(tasks) :
              Processed(i) =>
                  /\ tasks[i] \in DOMAIN deep_results
                  /\ deep_results[tasks[i]] =
                        IF task_state[tasks[i]].outcome.ok
                        THEN task_state[tasks[i]].outcome.value
                        ELSE EmptyOf(tasks[i])
        /\ deep_pc # "raised"
        /\ DeepFinished => Len(recommender_calls) = 1

-----------------------------------------------------------------------------
(* AIRecommender: the priority score and the cost rules                    *)

\* bool(x) of an Optional float, int or str: None, 0 and "" are false
TruthyFloat(x) == x # PyNone /\ ~FracIsZero(x[1])
TruthyInt(x) == x # PyNone /\ x[1] # 0
TruthyStr(x) == x # PyNone /\ x[1] # ""

FracLt(a, b) == FracGt(b, a)

\* score += 5 when the name has issues
NamingIssuesPoints == 5

\* Factor 1: cost
CostPoints(cost) ==
    IF FracGt(cost, FracInt(2000)) THEN 40
    ELSE IF FracGt(cost, FracInt(1000)) THEN 30
    ELSE IF FracGt(cost, FracInt(500)) THEN 20
    ELSE IF FracGt(cost, FracInt(100)) THEN 10
    ELSE 0

\* Factor 2: efficiency
EfficiencyPoints(efficiency) ==
    IF TruthyFloat(efficiency) /\ FracLt(efficiency[1], FracInt(30)) THEN 30
    ELSE IF TruthyFloat(efficiency) /\ FracLt(efficiency[1], FracInt(50)) THEN 20
    ELSE IF TruthyFloat(efficiency) /\ FracLt(efficiency[1], FracInt(70)) THEN 10
    ELSE 0

\* variant: a job in use lowers the score
StatusPointsActiveLowers(category) ==
    CASE category = "NEVER_RUN" -> 20
      [] category = "ABANDONED" -> 15
      [] category = "INACTIVE" -> 10
      [] OTHER -> 0 - 10

\* Factor 3: job status
StatusPoints(category) ==
    CASE category = "NEVER_RUN" -> 20
      [] category = "ABANDONED" -> 15
      [] category = "INACTIVE" -> 10
      [] OTHER -> 0

Min(a, b) == IF a <= b THEN a ELSE b
Max(a, b) == IF a >= b THEN a ELSE b

\* min(100, score)
CappedScore(score) == Min(100, score)

calculate_priority_score(prelim, performance_analysis) ==
    LET cost == prelim.cost_estimate.estimated_monthly_brl
        efficiency == performance_analysis.efficiency_score
        category == prelim.idle_analysis.category
        naming_issues == NamingIssuesOf(prelim.code_analysis)
    IN  IF ~naming_issues.ok THEN naming_issues
        ELSE Return(CappedScore(CostPoints(cost) + EfficiencyPoints(efficiency)
                                + StatusPoints(category)
                                + (IF Len(naming_issues.value) > 0
                                   THEN NamingIssuesPoints ELSE 0)))

-----------------------------------------------------------------------------
(* SpecPriority: _calculate_priority_score over preliminary results and    *)
(* performance analyses                                                    *)

\* monthly costs in BRL on both sides of every threshold
CostSamples ==
    { FracInt(0), FracInt(100), Frac(10001, 100), FracInt(500), Frac(50001, 100),
      FracInt(1000), Frac(100001, 100), FracInt(2000), Frac(200001, 100) }

\* efficiency scores: unset, and values on both sides of every threshold
EfficiencySamples ==
    { PyNone, Some(FracInt(0)), Some(Frac(299, 10)), Some(FracInt(30)), Some(Frac(499, 10)),
      Some(FracInt(50)), Some(Frac(699, 10)), Some(FracInt(70)), Some(FracInt(100)) }

NamingIssueLists == { <<>>, <<"Job name contains spaces">> }

\* a JobAnalysisResult as its dataclass declares it, with the fields the
\* recommender reads
PreliminaryOf(worker_type, number_of_workers, brl, category, naming_issues) ==
    [pytype |-> "JobAnalysisResult",
     job_name |-> "etl_sales",
     job_config |-> [pytype |-> "JobConfig", worker_type |-> worker_type,
                     number_of_workers |-> number_of_workers],
     cost_estimate |-> [pytype |-> "CostEstimate", estimated_monthly_brl |-> brl],
     idle_analysis |-> [pytype |-> "IdleAnalysis", category |-> category,
                        days_idle |-> IF category = "ABANDONED" THEN 120 ELSE 0],
     code_analysis |-> [pytype |-> "QuickCodeAnalysis", naming_issues |-> naming_issues]]

PerformanceOf(cpu, memory, efficiency) ==
    [PerformanceAnalysis EXCEPT !.avg_cpu_utilization = cpu,
                                !.avg_memory_utilization = memory,
                                !.efficiency_score = efficiency]

InitPriority ==
    /\ args \in { [fn |-> "calculate_priority_score",
                   preliminary_result |-> PreliminaryOf(Some("G.1X"), Some(2), c, k, n),
                   performance_analysis |-> PerformanceOf(PyNone, PyNone, e)] :
                    c \in CostSamples, e \in EfficiencySamples, k \in Categories,
                    n \in NamingIssueLists }
    /\ ret = NoValue
    /\ ScanIdle
    /\ DeepIdle
    /\ ProvIdle

CallPriority ==
    /\ args.fn = "calculate_priority_score"
    /\ ret = NoValue
    /\ ret' = calculate_priority_score(args.preliminary_result, args.performance_analysis)
    /\ UNCHANGED <<args, scanVars, deepVars, provVars>>

NextPriority == CallPriority

SpecPriority == InitPriority /\ [][NextPriority]_vars

Scored == args # NoValue /\ args.fn = "calculate_priority_score" /\ ret # NoValue

\* C11: for every preliminary result and performance analysis,
\* _calculate_priority_score returns a value between 0 and 100 inclusive.
C11_ScoreWithin0And100 ==
    Scored => ret.ok /\ ret.value >= 0 /\ ret.value <= 100

\* C11 witness: a score was returned for a job that earns points from
\* every factor.
C11_Witness ==
    /\ Scored
    /\ ret.ok
    /\ FracGt(args.preliminary_result.cost_estimate.estimated_monthly_brl, FracInt(2000))
    /\ args.performance_analysis.efficiency_score = Some(Frac(299, 10))
    /\ args.preliminary_result.idle_analysis.category = "NEVER_RUN"
    /\ args.preliminary_result.code_analysis.naming_issues # <<>>
    /\ ret.value > 0

\* C12: the score is the sum of four factors weighted 40/30/20/10 (cost up
\* to 40, efficiency up to 30, job status up to 20, code problems up to 10),
\* so the job with the highest cost, the lowest efficiency, no run and
\* naming issues scores the maximum of 100.
C12_FourFactorsReach100 ==
    (/\ Scored
     /\ FracGt(args.preliminary_result.cost_estimate.estimated_monthly_brl, FracInt(2000))
     /\ TruthyFloat(args.performance_analysis.efficiency_score)
     /\ FracLt(args.performance_analysis.efficiency_score[1], FracInt(30))
     /\ args.preliminary_result.idle_analysis.category = "NEVER_RUN"
     /\ args.preliminary_result.code_analysis.naming_issues # <<>>)
    => ret.ok /\ ret.value = 40 + 30 + 20 + 10

-----------------------------------------------------------------------------
(* AIRecommender._analyze_cost_optimization                                *)

\* a recommendation dict; its "description", a display text, is left out
Recommendation(category, title, recommendation, savings, effort, confidence) ==
    [type |-> "COST_OPTIMIZATION", category |-> category, title |-> title,
     recommendation |-> recommendation, estimated_savings_monthly |-> savings,
     implementation_effort |-> effort, confidence |-> confidence]

\* variant: every worker type above the smallest can be downgraded
DowngradableAny(worker_type) == worker_type \notin {"G.1X", "G.025X"}

\* the worker types the downgrade rule knows
Downgradable(worker_type) == worker_type \in {"G.4X", "G.8X", "G.2X"}

\* variant: the utilization is low when it is at most 30
LowUtilizationInclusive(cpu_util, memory_util) ==
    /\ ~FracGt(cpu_util[1], FracInt(30))
    /\ ~FracGt(memory_util[1], FracInt(30))

\* cpu_util < 30 and memory_util < 30
LowUtilization(cpu_util, memory_util) ==
    /\ FracLt(cpu_util[1], FracInt(30))
    /\ FracLt(memory_util[1], FracInt(30))

\* the worker type rule
WorkerTypeRule(prelim, performance_analysis) ==
    LET worker_type == IF TruthyStr(prelim.job_config.worker_type)
                       THEN prelim.job_config.worker_type[1] ELSE "Standard"
        cpu_util == performance_analysis.avg_cpu_utilization
        memory_util == performance_analysis.avg_memory_utilization
        brl == prelim.cost_estimate.estimated_monthly_brl
    IN  IF TruthyFloat(cpu_util) /\ TruthyFloat(memory_util)
           /\ LowUtilization(cpu_util, memory_util) /\ Downgradable(worker_type)
        THEN IF worker_type \in {"G.4X", "G.8X"}
             THEN << Recommendation("worker_downgrade",
                                    "Downgrade worker type from " \o worker_type,
                                    "Consider downgrading to G.2X or G.1X workers",
                                    FracMul(brl, Frac(5, 10)), "LOW", "HIGH") >>
             ELSE << Recommendation("worker_downgrade", "Downgrade to G.1X workers",
                                    "Downgrade to G.1X workers for better cost efficiency",
                                    FracMul(brl, Frac(3, 10)), "LOW", "MEDIUM") >>
        ELSE <<>>

\* the number of workers rule
WorkerCountRule(prelim, performance_analysis) ==
    LET num_workers == prelim.job_config.number_of_workers
        cpu_util == performance_analysis.avg_cpu_utilization
        brl == prelim.cost_estimate.estimated_monthly_brl
    IN  IF TruthyInt(num_workers) /\ num_workers[1] > 5
           /\ TruthyFloat(cpu_util) /\ FracLt(cpu_util[1], FracInt(40))
        THEN << Recommendation("worker_count",
                               "Reduce number of workers from " \o ToString(num_workers[1]),
                               "Consider reducing to "
                               \o ToString(Max(2, num_workers[1] \div 2)) \o " workers",
                               FracMul(brl, Frac(2, 10)), "LOW", "MEDIUM") >>
        ELSE <<>>

\* the rules for jobs never run and jobs abandoned
IdleJobRule(prelim) ==
    LET category == prelim.idle_analysis.category
        brl == prelim.cost_estimate.estimated_monthly_brl
    IN  IF category = "NEVER_RUN"
        THEN << Recommendation("job_removal", "Remove unused job",
                               "Consider removing this job if no longer needed",
                               brl, "LOW", "HIGH") >>
        ELSE IF category = "ABANDONED"
        THEN << Recommendation("job_review", "Review abandoned job",
                               "Review if job is still needed or can be archived",
                               brl, "MEDIUM", "HIGH") >>
        ELSE <<>>

analyze_cost_optimization(prelim, performance_analysis) ==
    WorkerTypeRule(prelim, performance_analysis)
    \o WorkerCountRule(prelim, performance_analysis)
    \o IdleJobRule(prelim)

-----------------------------------------------------------------------------
(* SpecCostRules: _analyze_cost_optimization over preliminary results and  *)
(* performance analyses                                                    *)

RuleWorkerTypes ==
    { PyNone, Some("Standard"), Some("G.1X"), Some("G.2X"), Some("G.4X"), Some("G.8X") }

\* utilizations in percent: unset, zero, and values around 30 and 40
CpuSamples ==
    { PyNone, Some(FracInt(0)), Some(FracInt(12)), Some(Frac(2999, 100)), Some(FracInt(30)),
      Some(FracInt(35)), Some(FracInt(40)) }

MemorySamples == { PyNone, Some(FracInt(0)), Some(Frac(255, 10)), Some(FracInt(30)) }

WorkerCounts == { PyNone, Some(0), Some(5), Some(6), Some(11) }

InitCostRules ==
    /\ args \in { [fn |-> "analyze_cost_optimization",
                   preliminary_result |-> PreliminaryOf(w, n, brl, k, <<>>),
                   performance_analysis |-> PerformanceOf(cpu, memory, PyNone)] :
                    w \in RuleWorkerTypes, n \in WorkerCounts,
                    brl \in {FracInt(0), FracInt(1000)}, k \in Categories,
                    cpu \in CpuSamples, memory \in MemorySamples }
    /\ ret = NoValue
    /\ ScanIdle
    /\ DeepIdle
    /\ ProvIdle

CallCostRules ==
    /\ args.fn = "analyze_cost_optimization"
    /\ ret = NoValue
    /\ ret' = Return(analyze_cost_optimization(args.preliminary_result,
                                               args.performance_analysis))
    /\ UNCHANGED <<args, scanVars, deepVars, provVars>>

NextCostRules == CallCostRules

SpecCostRules == InitCostRules /\ [][NextCostRules]_vars

CostRulesApplied == args # NoValue /\ args.fn = "analyze_cost_optimization" /\ ret # NoValue

\* the worker_downgrade recommendations among those returned
Downgrades == SelectSeq(ret.value, LAMBDA rec : rec.category = "worker_downgrade")

\* both utilizations are known and below 30
BothBelow30 ==
    /\ args.performance_analysis.avg_cpu_utilization # PyNone
    /\ args.performance_analysis.avg_memory_utilization # PyNone
    /\ FracLt(args.performance_analysis.avg_cpu_utilization[1], FracInt(30))
    /\ FracLt(args.performance_analysis.avg_memory_utilization[1], FracInt(30))

\* C13 as stated: whenever the average CPU utilization and the average
\* memory utilization are both below 30, a worker_downgrade recommendation
\* is emitted.
C13_DowngradeWheneverBelow30 ==
    (CostRulesApplied /\ BothBelow30) => Len(Downgrades) >= 1

\* C13 amended: exactly one worker_downgrade recommendation is emitted when
\* both utilizations are known, non-zero and below 30 and the worker type is
\* G.2X, G.4X or G.8X, and none is emitted otherwise; its estimated saving
\* is half the monthly BRL cost for G.4X and G.8X and 0.3 of it for G.2X.
C13_DowngradeForLargeWorkersOnly ==
    CostRulesApplied =>
        LET worker_type == args.preliminary_result.job_config.worker_type
            cpu == args.performance_analysis.avg_cpu_utilization
            memory == args.performance_analysis.avg_memory_utilization
            brl == args.preliminary_result.cost_estimate.estimated_monthly_brl
            applies == /\ BothBelow30
                       /\ cpu[1] # FracInt(0) /\ memory[1] # FracInt(0)
                       /\ worker_type \in {Some("G.2X"), Some("G.4X"), Some("G.8X")}
        IN  /\ ret.ok
            /\ Len(Downgrades) = (IF applies THEN 1 ELSE 0)
            /\ applies =>
                  Downgrades[1].estimated_savings_monthly =
                      IF worker_type = Some("G.2X") THEN FracMul(brl, Frac(3, 10))
                      ELSE FracMul(brl, Frac(1, 2))

\* C13 witness: both utilizations are below 30 on G.4X workers and the
\* downgrade was recommended next to a worker count recommendation.
C13_Witness ==
    /\ CostRulesApplied
    /\ BothBelow30
    /\ args.preliminary_result.job_config.worker_type = Some("G.4X")
    /\ Len(Downgrades) = 1
    /\ Len(ret.value) = 3

-----------------------------------------------------------------------------
(* Claims about the API calls of the preliminary scan                      *)

\* how many times an operation of the Glue client was called for a job
CallsTo(op, target) ==
    CopiesIn(ApiCall("glue", op, target, TRUE), api_calls)
    + CopiesIn(ApiCall("glue", op, target, FALSE), api_calls)

\* how many preliminary analyses of the job name have run to their end
AnalysesDone(name) == Cardinality({ i \in Finished : futures[i].job_name = name })

\* get_job_details hands job details to analyze_job_preliminary
DetailsFetched(name) ==
    get_job_details(name).ok /\ get_job_details(name).value.keys # {}

-----------------------------------------------------------------------------
(* GlueProvider: construction, authenticate and get_all_jobs               *)

ProviderClasses == {"GlueProvider", "DatabricksProvider", "SnowflakeProvider"}
StubClasses == {"DatabricksProvider", "SnowflakeProvider"}

\* the error codes _test_authentication takes for invalid credentials
InvalidCredentialCodes == {"InvalidUserID.NotFound", "AccessDenied", "UnauthorizedOperation"}

\* what creating the boto3 session and its clients can end with: done, or
\* a botocore error that is neither ClientError nor NoCredentialsError
SessionAnswers ==
    { [ok |-> TRUE], [ok |-> FALSE, class |-> "ProfileNotFound", code |-> ""] }

\* what the test call list_jobs(MaxResults=1) can end with
TestCallAnswers ==
    { [ok |-> TRUE, class |-> "", code |-> ""] }
    \cup { [ok |-> FALSE, class |-> "ClientError", code |-> c] :
             c \in InvalidCredentialCodes \cup {"ThrottlingException", "ExpiredTokenException"} }
    \cup { [ok |-> FALSE, class |-> "NoCredentialsError", code |-> ""],
           [ok |-> FALSE, class |-> "EndpointConnectionError", code |-> ""] }

\* _test_authentication, given what the test call ends with
test_authentication(answer) ==
    IF answer.ok THEN Return(PyNone)
    ELSE IF answer.class = "ClientError"
    THEN IF answer.code \in InvalidCredentialCodes
         THEN Raise("AuthenticationError", "Invalid AWS credentials", answer.code)
         ELSE Raise("ClientError", "", answer.code)
    ELSE Raise(answer.class, "", answer.code)

\* the except clauses of authenticate: "except (ClientError,
\* NoCredentialsError)" first, "except Exception" for everything else
authenticate_except(exc) ==
    IF exc.type \in {"ClientError", "NoCredentialsError"}
    THEN Raise("AuthenticationError", "Failed to authenticate with AWS", exc.job)
    ELSE Raise("ProviderError", "Error initializing AWS provider", exc.job)

\* authenticate, given what the session creation and the test call end with
authenticate(session, answer) ==
    LET tried == IF ~session.ok THEN Raise(session.class, "", session.code)
                 ELSE test_authentication(answer)
    IN  IF tried.ok THEN Return(TRUE) ELSE authenticate_except(tried.exc)

\* the API calls authenticate makes
authenticate_calls(session, answer) ==
    IF session.ok THEN << ApiCall("glue", "list_jobs", "MaxResults=1", answer.ok) >> ELSE <<>>

\* variant: the operations of the placeholder providers find nothing
stub_operation_empty(op) == Return(<<>>)

\* every operation of the Databricks and Snowflake providers
stub_operation(op) == Raise("NotImplementedError", "provider not yet implemented", op)

\* the record kept of an operation on the provider
Operation(op, outcome, calls, served) ==
    [op |-> op, outcome |-> outcome, api_calls_made |-> calls, served |-> served]

\* the "safety break" of the pagination loop
safety_limit == 50

\* variant: no safety break
SafetyBreakNever(page_count) == FALSE

\* if page_count > 50: break
SafetyBreak(page_count) == page_count > safety_limit

\* variant: the page replaces the names found so far
ReplaceNames(all_job_names, page_jobs) == page_jobs

\* all_job_names.extend(page_jobs)
ExtendNames(all_job_names, page_jobs) == all_job_names \o page_jobs

\* the job names of the k-th page of the account
PageJobs(k) == << "job_" \o ToString(k) >>

\* what the k-th list_jobs call of a pagination can end with: the k-th
\* page, carrying a NextToken while the account has more pages, or an error
ListJobsResponses(k) ==
    { [ok |-> TRUE,
       keys |-> IF account.endless \/ k < account.pages
                THEN {"JobNames", "NextToken"} ELSE {"JobNames"},
       JobNames |-> PageJobs(k),
       NextToken |-> "token_" \o ToString(k)],
      [ok |-> FALSE, code |-> "ThrottlingException"] }

\* params of a list_jobs call of get_all_jobs
ListJobsParams(next_token) ==
    IF TruthyStr(next_token) THEN "MaxResults=100,NextToken=" \o next_token[1]
    ELSE "MaxResults=100"

\* the provider object exists and is not inside an operation
ProviderAtRest == prov_pc \in {"ready", "broken"} /\ listing = NoValue

\* GlueProvider(credentials), DatabricksProvider(credentials) or
\* SnowflakeProvider(credentials)
Construct(class) ==
    /\ prov_pc = "new"
    /\ provider_class' = class
    /\ IF class = "GlueProvider"
       THEN \E session \in SessionAnswers, answer \in TestCallAnswers :
               LET outcome == authenticate(session, answer)
                   calls == authenticate_calls(session, answer)
               IN  /\ provider_client' = IF outcome.ok THEN "glue" ELSE "None"
                   /\ prov_pc' = IF outcome.ok THEN "ready" ELSE "broken"
                   /\ api_calls' = AddCalls(api_calls, calls)
                   /\ prov_ret' = Operation("__init__",
                                            IF outcome.ok THEN Return(PyNone) ELSE outcome,
                                            Len(calls), <<>>)
       ELSE /\ provider_client' = "None"
            /\ prov_pc' = "ready"
            /\ prov_ret' = Operation("__init__", Return(PyNone), 0, <<>>)
            /\ UNCHANGED api_calls
    /\ UNCHANGED <<fnVars, deepVars, glue, job_names, scan_pc, futures, yielded, results,
                   error_log, scan_exc, prov_ops, listing, account>>

\* provider.authenticate() on an existing provider object
Authenticate ==
    /\ ProviderAtRest
    /\ prov_ops < MaxOps
    /\ prov_ops' = prov_ops + 1
    /\ IF provider_class = "GlueProvider"
       THEN \E session \in SessionAnswers, answer \in TestCallAnswers :
               LET outcome == authenticate(session, answer)
                   calls == authenticate_calls(session, answer)
               IN  /\ provider_client' = IF outcome.ok THEN "glue" ELSE provider_client
                   /\ api_calls' = AddCalls(api_calls, calls)
                   /\ prov_ret' = Operation("authenticate", outcome, Len(calls), <<>>)
       ELSE /\ prov_ret' = Operation("authenticate", stub_operation("authenticate"), 0, <<>>)
            /\ UNCHANGED <<provider_client, api_calls>>
    /\ UNCHANGED <<fnVars, deepVars, glue, job_names, scan_pc, futures, yielded, results,
                   error_log, scan_exc, provider_class, prov_pc, listing, account>>

\* provider.get_job_details(job_name)
GetJobDetails(job_name) ==
    /\ ProviderAtRest
    /\ prov_ops < MaxOps
    /\ prov_ops' = prov_ops + 1
    /\ IF provider_class = "GlueProvider"
       THEN /\ api_calls' = AddCalls(api_calls, get_job_details_calls(job_name))
            /\ prov_ret' = Operation("get_job_details", get_job_details(job_name),
                                     Len(get_job_details_calls(job_name)), <<>>)
       ELSE /\ prov_ret' = Operation("get_job_details", stub_operation("get_job_details"),
                                     0, <<>>)
            /\ UNCHANGED api_calls
    /\ UNCHANGED <<fnVars, deepVars, scanVars, provider_class, prov_pc, listing, account>>

\* provider.get_recent_runs(job_name)
GetRecentRuns(job_name) ==
    /\ ProviderAtRest
    /\ prov_ops < MaxOps
    /\ prov_ops' = prov_ops + 1
    /\ IF provider_class = "GlueProvider"
       THEN /\ api_calls' = AddCalls(api_calls, get_recent_runs_calls(job_name))
            /\ prov_ret' = Operation("get_recent_runs", get_recent_runs(job_name),
                                     Len(get_recent_runs_calls(job_name)), <<>>)
       ELSE /\ prov_ret' = Operation("get_recent_runs", stub_operation("get_recent_runs"),
                                     0, <<>>)
            /\ UNCHANGED api_calls
    /\ UNCHANGED <<fnVars, deepVars, scanVars, provider_class, prov_pc, listing, account>>

\* provider.get_all_jobs() up to the pagination loop
GetAllJobs ==
    /\ ProviderAtRest
    /\ prov_ops < MaxOps
    /\ prov_ops' = prov_ops + 1
    /\ IF provider_class # "GlueProvider"
       THEN /\ prov_ret' = Operation("get_all_jobs", stub_operation("get_all_jobs"), 0, <<>>)
            /\ UNCHANGED listing
       ELSE IF ~is_authenticated
       THEN /\ prov_ret' = Operation("get_all_jobs",
                                     Raise("AuthenticationError",
                                           "Provider not authenticated", ""),
                                     0, <<>>)
            /\ UNCHANGED listing
       ELSE /\ listing' = [all_job_names |-> <<>>, next_token |-> PyNone, page_count |-> 0,
                           served |-> <<>>, calls_before |-> BagCardinality(api_calls)]
            /\ prov_ret' = NoValue
    /\ UNCHANGED <<fnVars, deepVars, scanVars, provider_class, prov_pc, api_calls, account>>

\* one iteration of the "while True" loop of get_all_jobs, and the return
\* or the except clause when the iteration leaves the loop
ListJobs ==
    /\ listing # NoValue
    /\ listing.page_count < MaxPages
    /\ \E response \in ListJobsResponses(listing.page_count + 1) :
          LET page_count == listing.page_count + 1
              call == ApiCall("glue", "list_jobs", ListJobsParams(listing.next_token),
                              response.ok)
              made == BagCardinality(api_calls) + 1 - listing.calls_before
          IN  /\ api_calls' = AddCalls(api_calls, <<call>>)
              /\ IF ~response.ok
                 THEN /\ listing' = NoValue
                      /\ prov_ret' = Operation("get_all_jobs",
                                               Raise("ProviderError", "Failed to list jobs",
                                                     response.code),
                                               made, listing.served)
                 ELSE LET all_job_names == ExtendNames(listing.all_job_names,
                                                       DictGet(response, "JobNames", <<>>))
                          next_token == OptGet(response, "NextToken")
                          served == Append(listing.served, response)
                      IN  IF ~TruthyStr(next_token) \/ SafetyBreak(page_count)
                          THEN /\ listing' = NoValue
                               /\ prov_ret' = Operation("get_all_jobs", Return(all_job_names),
                                                        made, served)
                          ELSE /\ listing' = [listing EXCEPT
                                                 !.all_job_names = all_job_names,
                                                 !.next_token = next_token,
                                                 !.page_count = page_count,
                                                 !.served = served]
                               /\ UNCHANGED prov_ret
    /\ UNCHANGED <<fnVars, deepVars, scanVars, provider_class, prov_pc, prov_ops, account>>

NextProvider ==
    \/ \E class \in ProviderClasses : Construct(class)
    \/ Authenticate
    \/ \E job_name \in DOMAIN glue : GetJobDetails(job_name)
    \/ \E job_name \in DOMAIN glue : GetRecentRuns(job_name)
    \/ GetAllJobs
    \/ ListJobs

-----------------------------------------------------------------------------
(* SpecProvider: a provider object is constructed and operated             *)

\* accounts with one and with two pages of jobs
SmallAccounts == { [endless |-> FALSE, pages |-> n] : n \in 1..2 }

InitProviderWith(accounts) ==
    /\ provider_class = "None"
    /\ provider_client = "None"
    /\ prov_pc = "new"
    /\ prov_ops = 0
    /\ api_calls = EmptyBag
    /\ listing = NoValue
    /\ account \in accounts
    /\ prov_ret = NoValue
    /\ glue \in GlueWorlds({"etl_sales"})
    /\ job_names = <<>>
    /\ scan_pc = "idle"
    /\ futures = <<>>
    /\ yielded = {}
    /\ results = <<>>
    /\ error_log = {}
    /\ scan_exc = NoValue
    /\ FnIdle
    /\ DeepIdle

InitProvider == InitProviderWith(SmallAccounts)

SpecProvider == InitProvider /\ [][NextProvider]_vars

-----------------------------------------------------------------------------
(* Claims about the providers                                              *)

\* the last operation on the provider object was op
LastOp(op) == prov_ret # NoValue /\ prov_ret.op = op

TestCallSucceeded ==
    CopiesIn(ApiCall("glue", "list_jobs", "MaxResults=1", TRUE), api_calls) >= 1

\* C16: constructing a GlueProvider raises AuthenticationError when the
\* test call fails with an invalid-credentials error code
\* (InvalidUserID.NotFound, AccessDenied, UnauthorizedOperation), and
\* ProviderError on every other initialization failure.
C16_InvalidCredentialsAreAuthenticationErrors ==
    (LastOp("__init__") /\ ~prov_ret.outcome.ok) =>
        prov_ret.outcome.exc.type =
            IF prov_ret.outcome.exc.job \in InvalidCredentialCodes
            THEN "AuthenticationError" ELSE "ProviderError"

\* C17: a Databricks or Snowflake provider is never authenticated, each of
\* its operations raises NotImplementedError, and none makes an API call.
C17_StubProviders ==
    provider_class \in StubClasses =>
        /\ ~is_authenticated
        /\ prov_pc = "ready"
        /\ api_calls = EmptyBag
        /\ listing = NoValue
        /\ prov_ret.op = "__init__" => prov_ret.outcome.ok
        /\ prov_ret.op # "__init__" =>
              /\ ~prov_ret.outcome.ok
              /\ prov_ret.outcome.exc.type = "NotImplementedError"
              /\ prov_ret.op \in {"authenticate", "get_all_jobs", "get_job_details",
                                  "get_recent_runs"}

\* C17 witness: a Snowflake provider has been asked to authenticate and
\* then to list its jobs.
C17_Witness ==
    /\ provider_class = "SnowflakeProvider"
    /\ prov_ops = 2
    /\ LastOp("get_all_jobs")
    /\ ~is_authenticated

-----------------------------------------------------------------------------
(* SpecListing: get_all_jobs on a GlueProvider whose construction          *)
(* completed, over accounts of few pages, of as many pages as the safety   *)
(* limit allows, of more, and of endless pages                             *)

ListingAccounts ==
    { [endless |-> FALSE, pages |-> n] :
        n \in {1, 2, safety_limit, safety_limit + 1, safety_limit + 2} }
    \cup { [endless |-> TRUE, pages |-> 0] }

InitListing ==
    /\ provider_class = "GlueProvider"
    /\ provider_client = "glue"
    /\ prov_pc = "ready"
    /\ prov_ops = MaxOps - 1
    /\ api_calls = SetToBag({ApiCall("glue", "list_jobs", "MaxResults=1", TRUE)})
    /\ listing = NoValue
    /\ account \in ListingAccounts
    /\ prov_ret = Operation("__init__", Return(PyNone), 1, <<>>)
    /\ glue = <<>>
    /\ job_names = <<>>
    /\ scan_pc = "idle"
    /\ futures = <<>>
    /\ yielded = {}
    /\ results = <<>>
    /\ error_log = {}
    /\ scan_exc = NoValue
    /\ FnIdle
    /\ DeepIdle

NextListing == GetAllJobs \/ ListJobs

\* a call of get_all_jobs runs on: each list_jobs call returns or raises
SpecListing == InitListing /\ [][NextListing]_vars /\ WF_vars(ListJobs)

\* the JobNames of a sequence of pages, concatenated in page order
RECURSIVE ConcatJobNames(_)
ConcatJobNames(pages) ==
    IF pages = <<>> THEN <<>>
    ELSE pages[1].JobNames \o ConcatJobNames(SubSeq(pages, 2, Len(pages)))

\* the first n pages of the account
AccountPages(n) == [k \in 1..n |-> [JobNames |-> PageJobs(k)]]

ListedAll == LastOp("get_all_jobs") /\ prov_ret.outcome.ok

\* every call after the first carried the NextToken of the page before
FollowedNextToken ==
    \A k \in 1..(Len(prov_ret.served) - 1) :
        CopiesIn(ApiCall("glue", "list_jobs",
                         "MaxResults=100,NextToken=" \o prov_ret.served[k].NextToken, TRUE),
                 api_calls) = 1

C18_StopsAfter51Calls ==
    /\ [](/\ listing # NoValue =>
                /\ listing.page_count <= safety_limit
                /\ BagCardinality(api_calls) - listing.calls_before = listing.page_count
          /\ LastOp("get_all_jobs") =>
                /\ prov_ret.api_calls_made <= safety_limit + 1
                /\ (account.endless /\ Len(prov_ret.served) = prov_ret.api_calls_made) =>
                      /\ prov_ret.outcome.ok
                      /\ prov_ret.api_calls_made = safety_limit + 1
                      /\ prov_ret.outcome.value = ConcatJobNames(prov_ret.served)
                      /\ Len(prov_ret.outcome.value) = safety_limit + 1)
    /\ (listing # NoValue) ~> (listing = NoValue)

\* C18 witness: on an account of endless pages get_all_jobs has returned
\* after 51 calls.
C18_Witness ==
    /\ ListedAll
    /\ account.endless
    /\ prov_ret.api_calls_made = 51
    /\ Len(prov_ret.outcome.value) = 51

-----------------------------------------------------------------------------
(* Termination of scan_jobs                                                *)

\* the steps scan_jobs and its pool threads still have to take: submit,
\* start, run and collect each job, enter the as_completed loop, return
ScanStepsLeft ==
    LET unsubmitted == Len(job_names) - Len(futures)
    IN  3 * unsubmitted + 2 * Cardinality(Pending) + Cardinality(Running)
        + (Len(job_names) - Cardinality(yielded))
        + (IF scan_pc = "submit" THEN 2 ELSE IF scan_pc = "as_completed" THEN 1 ELSE 0)

\* some thread can take a step: the main thread, a pool thread that takes
\* up a queued analysis, or a pool thread inside an analysis, whose
\* provider calls return or raise
ScanCanStep ==
    \/ ENABLED (Submit \/ EnterAsCompleted \/ ScanReturn)
    \/ \E i \in 1..Len(futures) : ENABLED (Collect(i) \/ WorkerStart(i))
    \/ Running # {}

\* C19: scan_jobs always terminates: as long as it has not returned, some
\* thread can take a step (each provider call returning or raising), every
\* step brings the return nearer, and when it has returned every job of the
\* input was submitted and has produced a result or failed, and no analysis
\* is running or waiting.
C19_ScanTerminates ==
    /\ [](scan_pc # "returned" => ScanCanStep)
    /\ [][ScanStepsLeft' < ScanStepsLeft]_vars
    /\ [](ScanStepsLeft >= 0)
    /\ [](scan_pc = "returned" =>
            /\ ScanStepsLeft = 0
            /\ Len(futures) = Len(job_names)
            /\ Finished = 1..Len(futures)
            /\ yielded = 1..Len(futures)
            /\ Running = {} /\ Pending = {}
            /\ Len(results) + Cardinality(error_log) = Len(job_names))

\* C19 witness: the scan of two different jobs has returned with both
\* analyses at their end.
C19_Witness ==
    /\ scan_pc = "returned"
    /\ Len(job_names) = 2
    /\ job_names[1] # job_names[2]
    /\ Finished = {1, 2}
    /\ Running = {}

-----------------------------------------------------------------------------
(* Error translation of the GlueProvider operations                        *)

\* the job the provider is asked about
TheJob == CHOOSE n \in DOMAIN glue : TRUE

\* the operation op has returned or raised on an authenticated GlueProvider
GlueOpDone(op) == provider_class = "GlueProvider" /\ is_authenticated /\ LastOp(op)

\* the outcome is the raising of ProviderError
RaisesProviderError(outcome) == ~outcome.ok /\ outcome.exc.type = "ProviderError"

\* the last list_jobs call of the pagination failed
LastListJobsFailed ==
    \E c \in BagToSet(api_calls) : c.op = "list_jobs" /\ c.target # "MaxResults=1" /\ ~c.ok

\* C21: get_recent_runs returns an empty list when the API reports
\* EntityNotFoundException and raises ProviderError for any other client
\* error; get_job_details and get_all_jobs raise ProviderError for every
\* client error; no operation ends with a raw ClientError.
C21_ClientErrorsTranslated ==
    /\ GlueOpDone("get_recent_runs") =>
          LET response == glue[TheJob].get_job_runs
          IN  /\ response.ok => prov_ret.outcome = Return(response.JobRuns)
              /\ (~response.ok /\ response.code = "EntityNotFoundException")
                    => prov_ret.outcome = Return(<<>>)
              /\ (~response.ok /\ response.code # "EntityNotFoundException")
                    => RaisesProviderError(prov_ret.outcome)
    /\ GlueOpDone("get_job_details") =>
          LET response == glue[TheJob].get_job
          IN  /\ response.ok => prov_ret.outcome = Return(response.Job)
              /\ ~response.ok => RaisesProviderError(prov_ret.outcome)
    /\ (GlueOpDone("get_all_jobs") /\ prov_ops = 1) =>
          (LastListJobsFailed <=> RaisesProviderError(prov_ret.outcome))
    /\ prov_ret # NoValue => (prov_ret.outcome.ok \/ prov_ret.outcome.exc.type # "ClientError")

\* C21 witness: the details of a job were asked for and the call failed,
\* then its runs were asked for and the API reported
\* EntityNotFoundException: the provider returned an empty list.
C21_Witness ==
    /\ GlueOpDone("get_recent_runs")
    /\ prov_ops = 2
    /\ ~glue[TheJob].get_job_runs.ok
    /\ glue[TheJob].get_job_runs.code = "EntityNotFoundException"
    /\ prov_ret.outcome = Return(<<>>)
    /\ ApiCall("glue", "get_job", TheJob, FALSE) \in BagToSet(api_calls)
    /\ ApiCall("glue", "get_job_runs", TheJob, FALSE) \in BagToSet(api_calls)

-----------------------------------------------------------------------------
(* AIRecommender: number formatting and parsing                            *)

\* bool(x) of an Optional list: None and [] are false
TruthyList(x) == x # PyNone /\ x[1] # <<>>

\* x or []
OrEmptyList(x) == IF TruthyList(x) THEN x[1] ELSE <<>>

FracAdd(a, b) ==
    LET l == (a[2] \div GCD(a[2], b[2])) * b[2]
    IN  Frac(a[1] * (l \div a[2]) + b[1] * (l \div b[2]), l)

\* the least common multiple of the denominators of a list of fractions
RECURSIVE CommonDenominator(_)
CommonDenominator(fracs) ==
    IF fracs = <<>> THEN 1
    ELSE LET l == CommonDenominator(Tail(fracs))
         IN  (l \div GCD(l, Head(fracs)[2])) * Head(fracs)[2]

\* the sum of a list of fractions, added up over their common denominator
SumFracs(fracs) ==
    LET l == CommonDenominator(fracs)
    IN  Frac(SumSeq([i \in 1..Len(fracs) |-> fracs[i][1] * (l \div fracs[i][2])]), l)

\* the value of a string of decimal digits
RECURSIVE DigitsValue(_)
DigitsValue(s) ==
    IF Len(s) = 0 THEN 0
    ELSE 10 * DigitsValue(SubSeq(s, 1, Len(s) - 1))
         + ((CHOOSE i \in 1..10 : CharAt(Digits, i) = CharAt(s, Len(s))) - 1)

IsDigits(s) == \A i \in 1..Len(s) : CharIn(CharAt(s, i), Digits)

RECURSIVE Pow10(_)
Pow10(n) == IF n = 0 THEN 1 ELSE 10 * Pow10(n - 1)

\* float(s) for a string without sign, exponent, blanks or underscores: a
\* decimal numeral is converted, anything else raises ValueError
ParseFloat(s) ==
    LET dots == { i \in 1..Len(s) : CharAt(s, i) = "." }
        dot == IF dots = {} THEN Len(s) + 1 ELSE CHOOSE i \in dots : TRUE
        whole == SubSeq(s, 1, dot - 1)
        decimals == SubSeq(s, dot + 1, Len(s))
    IN  IF Cardinality(dots) <= 1 /\ IsDigits(whole) /\ IsDigits(decimals)
           /\ Len(whole) + Len(decimals) >= 1
        THEN Return(Frac(DigitsValue(whole \o decimals), Pow10(Len(decimals))))
        ELSE Raise("ValueError", "could not convert string to float", s)

\* the hundredths of a non-negative amount rounded to two decimals
Hundredths(x) == LET r == Round2(x) IN (r[1] * 100) \div r[2]

\* f"{x:.2f}" of a non-negative number
Format2f(x) ==
    LET h == Hundredths(x)
    IN  ToString(h \div 100) \o "." \o ToString((h % 100) \div 10) \o ToString(h % 10)

\* str(x) of a non-negative float of at most two decimals
FloatStr(x) ==
    LET h == Hundredths(x)
    IN  ToString(h \div 100) \o "." \o ToString((h % 100) \div 10)
        \o (IF h % 10 = 0 THEN "" ELSE ToString(h % 10))

\* "; ".join(parts)
RECURSIVE Join(_, _)
Join(sep, parts) ==
    IF Len(parts) = 0 THEN ""
    ELSE IF Len(parts) = 1 THEN parts[1]
    ELSE parts[1] \o sep \o Join(sep, Tail(parts))

\* the concatenation of the lists f(x) for x in list order
RECURSIVE FlatMap(_, _)
FlatMap(f(_), list) ==
    IF list = <<>> THEN <<>> ELSE f(Head(list)) \o FlatMap(f, Tail(list))

-----------------------------------------------------------------------------
(* AIRecommender: performance and architecture rules, risks, totals and    *)
(* the lists handed out                                                    *)

\* a recommendation dict of any type; its "description" is left out
RecommendationOf(type, category, title, recommendation, savings, effort, confidence) ==
    [Recommendation(category, title, recommendation, savings, effort, confidence)
        EXCEPT !.type = type]

\* the recommendation for one performance issue found in the code
IssueRule(issue) ==
    IF Contains(issue, "collect()")
    THEN << RecommendationOf("PERFORMANCE", "code_optimization",
                             "Remove collect() operations",
                             "Replace collect() with write operations or use take() with limit",
                             FracInt(200), "MEDIUM", "HIGH") >>
    ELSE IF Contains(issue, "count() in loop")
    THEN << RecommendationOf("PERFORMANCE", "code_optimization",
                             "Optimize count() operations",
                             "Cache DataFrames before loops or restructure logic",
                             FracInt(150), "MEDIUM", "HIGH") >>
    ELSE <<>>

\* the efficiency rule
EfficiencyRule(performance_analysis) ==
    LET efficiency_score == performance_analysis.efficiency_score
    IN  IF TruthyFloat(efficiency_score) /\ FracLt(efficiency_score[1], FracInt(50))
        THEN << RecommendationOf("PERFORMANCE", "resource_optimization",
                                 "Improve resource efficiency (current: "
                                 \o FloatStr(efficiency_score[1]) \o "%)",
                                 "Review job configuration and optimize resource allocation",
                                 FracInt(300), "HIGH", "MEDIUM") >>
        ELSE <<>>

get_bottleneck_recommendation(bottleneck) ==
    IF Contains(bottleneck, "CPU under-utilized")
    THEN "Reduce instance type or number of workers"
    ELSE IF Contains(bottleneck, "Memory under-utilized")
    THEN "Switch to memory-optimized instance or reduce allocation"
    ELSE IF Contains(bottleneck, "CPU over-utilized")
    THEN "Increase instance type or add more workers"
    ELSE IF Contains(bottleneck, "Memory over-utilized")
    THEN "Increase memory allocation or optimize code"
    ELSE IF Contains(bottleneck, "execution time variability")
    THEN "Investigate data skew and optimize partitioning"
    ELSE "Review job configuration and optimization opportunities"

\* the recommendation for one bottleneck
BottleneckRule(bottleneck) ==
    << RecommendationOf("PERFORMANCE", "bottleneck_resolution",
                        "Resolve performance bottleneck",
                        get_bottleneck_recommendation(bottleneck),
                        FracInt(100), "MEDIUM", "MEDIUM") >>

analyze_performance_optimization(code_analysis, performance_analysis) ==
    FlatMap(IssueRule, OrEmptyList(code_analysis.performance_issues))
    \o EfficiencyRule(performance_analysis)
    \o FlatMap(BottleneckRule, OrEmptyList(performance_analysis.bottlenecks))

\* the rule for jobs with more than 5 input sources
InputCountRule(dependency_analysis) ==
    LET input_count == Len(OrEmptyList(dependency_analysis.input_sources))
    IN  IF input_count > 5
        THEN << RecommendationOf("ARCHITECTURE", "dependency_simplification",
                                 "Simplify data dependencies (" \o ToString(input_count)
                                 \o " inputs)",
                                 "Consider consolidating data sources or breaking job into smaller pieces",
                                 FracInt(0), "HIGH", "MEDIUM") >>
        ELSE <<>>

\* the recommendation for one schedule conflict
ConflictRule(conflict) ==
    << RecommendationOf("ARCHITECTURE", "schedule_optimization",
                        "Resolve schedule conflict",
                        "Review and optimize job scheduling to avoid conflicts",
                        FracInt(50), "MEDIUM", "HIGH") >>

\* the Glue version rule; float(job_config.glue_version) can raise
GlueVersionRule(prelim) ==
    LET glue_version == prelim.job_config.glue_version
        number == ParseFloat(glue_version[1])
    IN  IF ~TruthyStr(glue_version) THEN Return(<<>>)
        ELSE IF ~number.ok THEN number
        ELSE IF FracLt(number.value, FracInt(3))
        THEN Return(<< RecommendationOf("MODERNIZATION", "version_upgrade",
                                        "Upgrade Glue version from " \o glue_version[1],
                                        "Upgrade to Glue 3.0 or higher for better performance",
                                        FracInt(100), "MEDIUM", "HIGH") >>)
        ELSE Return(<<>>)

analyze_architecture_improvements(dependency_analysis, prelim) ==
    LET version == GlueVersionRule(prelim)
    IN  IF ~version.ok THEN version
        ELSE Return(InputCountRule(dependency_analysis)
                    \o FlatMap(ConflictRule,
                               OrEmptyList(dependency_analysis.schedule_conflicts))
                    \o version.value)

\* the risks found, in the order they are looked for
RisksOf(prelim, code_analysis, dependency_analysis) ==
    LET cost == prelim.cost_estimate.estimated_monthly_brl
        when(cond, risk) == IF cond THEN <<risk>> ELSE <<>>
    IN  when(TruthyList(code_analysis.security_issues),
             "SECURITY: Potential security vulnerabilities in code")
        \o when(TruthyList(code_analysis.performance_issues),
                "PERFORMANCE: Code patterns that may cause failures")
        \o when(Len(OrEmptyList(dependency_analysis.input_sources)) > 10,
                "DEPENDENCY: High complexity due to many dependencies")
        \o when(FracGt(cost, FracInt(1000)),
                "COST: High monthly cost (R$ " \o Format2f(cost) \o ")")
        \o when(prelim.idle_analysis.category \in {"ABANDONED", "NEVER_RUN"},
                "OPERATIONAL: Job may be obsolete")

\* variant: a HIGH assessment lists every risk
RisksListedAll(risks) == risks

\* risks[:3]
RisksListed(risks) == SubSeq(risks, 1, Min(3, Len(risks)))

assess_risks(prelim, code_analysis, dependency_analysis) ==
    LET risks == RisksOf(prelim, code_analysis, dependency_analysis)
    IN  IF risks = <<>> THEN "LOW: No significant risks identified"
        ELSE IF Len(risks) <= 2 THEN "MEDIUM: " \o Join("; ", risks)
        ELSE "HIGH: Multiple risks identified - " \o Join("; ", RisksListed(risks))

\* the factor applied to the savings of a recommendation of a confidence
ConfidenceFactor(confidence) ==
    IF confidence = "HIGH" THEN Frac(9, 10)
    ELSE IF confidence = "MEDIUM" THEN Frac(7, 10)
    ELSE Frac(5, 10)

\* total_savings after the loop over the recommendations
WeightedSavings(recommendations) ==
    SumFracs([i \in 1..Len(recommendations) |->
                FracMul(recommendations[i].estimated_savings_monthly,
                        ConfidenceFactor(recommendations[i].confidence))])

\* variant: the total is handed out as summed
TotalAsSummed(total_savings) == total_savings

\* round(total_savings, 2)
TotalRounded(total_savings) == Round2(total_savings)

estimate_total_savings(recommendations) == TotalRounded(WeightedSavings(recommendations))

\* variant: recommendations of equal savings come out in reverse order
PlaceUnstable(recommendations, i) ==
    LET savings(k) == recommendations[k].estimated_savings_monthly
    IN  1 + Cardinality({ j \in 1..Len(recommendations) : FracGt(savings(j), savings(i)) })
          + Cardinality({ j \in (i + 1)..Len(recommendations) : savings(j) = savings(i) })

\* the place a stable sort by decreasing savings gives the i-th
\* recommendation: behind those that save more and those before it that
\* save as much
PlaceBySavings(recommendations, i) ==
    LET savings(k) == recommendations[k].estimated_savings_monthly
    IN  1 + Cardinality({ j \in 1..Len(recommendations) : FracGt(savings(j), savings(i)) })
          + Cardinality({ j \in 1..(i - 1) : savings(j) = savings(i) })

\* sorted(recommendations, key=estimated_savings_monthly, reverse=True)
SortedBySavings(recommendations) ==
    [k \in 1..Len(recommendations) |->
        recommendations[CHOOSE i \in 1..Len(recommendations) :
                            PlaceBySavings(recommendations, i) = k]]

\* sorted_recs[:10]
Top10(sorted_recs) == SubSeq(sorted_recs, 1, Min(10, Len(sorted_recs)))

\* the line displayed for a recommendation
FormatRecommendation(rec) ==
    IF FracGt(rec.estimated_savings_monthly, FracInt(0))
    THEN rec.title \o " - Save R$ " \o Format2f(rec.estimated_savings_monthly)
         \o "/month (" \o rec.implementation_effort \o " effort)"
    ELSE rec.title \o " (" \o rec.implementation_effort \o " effort)"

format_recommendations(recommendations) ==
    LET shown == Top10(SortedBySavings(recommendations))
    IN  [i \in 1..Len(shown) |-> FormatRecommendation(shown[i])]

\* variant: every cost recommendation is an opportunity
IsCostOpportunityAny(rec) == rec.type = "COST_OPTIMIZATION"

\* the test of _extract_cost_opportunities
IsCostOpportunity(rec) ==
    rec.type = "COST_OPTIMIZATION" /\ FracGt(rec.estimated_savings_monthly, FracInt(0))

\* the line of a cost opportunity
FormatCostOpportunity(rec) ==
    rec.title \o " - R$ " \o Format2f(rec.estimated_savings_monthly) \o "/month"

extract_cost_opportunities(recommendations) ==
    LET kept == SelectSeq(recommendations, IsCostOpportunity)
    IN  [i \in 1..Len(kept) |-> FormatCostOpportunity(kept[i])]

\* the test of _extract_modernization_opportunities
IsModernization(rec) == rec.type \in {"MODERNIZATION", "ARCHITECTURE"}

extract_modernization_opportunities(recommendations) ==
    LET kept == SelectSeq(recommendations, IsModernization)
    IN  [i \in 1..Len(kept) |-> kept[i].title]

\* the body of the try block of generate_recommendations_async:
\* all_recommendations and the AIRecommendations built from them, or the
\* exception a rule raised
generate_recommendations_try(prelim, code_analysis, performance_analysis, dependency_analysis) ==
    LET cost_recommendations == analyze_cost_optimization(prelim, performance_analysis)
        performance_recommendations ==
            analyze_performance_optimization(code_analysis, performance_analysis)
        architecture_recommendations ==
            analyze_architecture_improvements(dependency_analysis, prelim)
        risk_assessment == assess_risks(prelim, code_analysis, dependency_analysis)
        all_recommendations == cost_recommendations \o performance_recommendations
                               \o architecture_recommendations.value
        priority_score == calculate_priority_score(prelim, performance_analysis)
    IN  IF ~architecture_recommendations.ok THEN architecture_recommendations
        ELSE IF ~priority_score.ok THEN priority_score
        ELSE [ok |-> TRUE,
              all_recommendations |-> all_recommendations,
              value |->
                [AIRecommendations EXCEPT
                   !.optimization_suggestions =
                       Some(format_recommendations(all_recommendations)),
                   !.cost_reduction_opportunities =
                       Some(extract_cost_opportunities(all_recommendations)),
                   !.modernization_recommendations =
                       Some(extract_modernization_opportunities(all_recommendations)),
                   !.risk_assessment = Some(risk_assessment),
                   !.priority_score = Some(priority_score.value),
                   !.estimated_savings_brl =
                       Some(estimate_total_savings(all_recommendations))]]

\* variant: the exception of a rule is passed on
recommendations_except_reraise(exc) == [ok |-> FALSE, exc |-> exc]

\* except Exception: return AIRecommendations()
recommendations_except(exc) == Return(AIRecommendations)

generate_recommendations_async(prelim, code_analysis, performance_analysis, dependency_analysis) ==
    LET tried == generate_recommendations_try(prelim, code_analysis, performance_analysis,
                                              dependency_analysis)
    IN  IF tried.ok THEN tried ELSE recommendations_except(tried.exc)

-----------------------------------------------------------------------------
(* SpecRecommend: generate_recommendations_async over preliminary results  *)
(* and the three deep analyses                                             *)

\* worker type and number of workers of the jobs
RecWorkers == { <<PyNone, PyNone>>, <<Some("G.2X"), Some(2)>>, <<Some("G.8X"), Some(6)>> }

\* monthly costs in BRL
RecCosts == { FracInt(0), Frac(33335, 100), FracInt(1000), Frac(100001, 100) }

\* category and cost of the jobs: a job never run costs nothing
RecIdleCosts ==
    { kc \in {"ACTIVE", "ABANDONED", "NEVER_RUN"} \X RecCosts :
        kc[1] = "NEVER_RUN" => kc[2] = FracInt(0) }

\* GlueVersion as the job reports it
GlueVersions == { PyNone, Some("2.0"), Some("3.0"), Some("latest") }

\* the preliminary result with the Glue version of the job
WithGlueVersion(prelim, glue_version) ==
    [prelim EXCEPT !.job_config = [glue_version |-> glue_version] @@ @]

CodeAnalyses ==
    { CodeAnalysis,
      [CodeAnalysis EXCEPT !.script_content = Some("df.collect()"),
                           !.performance_issues = Some(<<"Using collect() on large data">>),
                           !.security_issues = Some(<<>>)],
      [CodeAnalysis EXCEPT !.script_content = Some("df.collect()"),
                           !.performance_issues =
                               Some(<<"Using collect() on large data",
                                      "count() in loop detected",
                                      "collect() inside a function", "Wide select *">>),
                           !.security_issues = Some(<<"Hardcoded credentials">>)] }

PerformanceAnalyses ==
    { PerformanceAnalysis,
      [PerformanceOf(Some(FracInt(20)), Some(FracInt(25)), Some(Frac(455, 10)))
          EXCEPT !.bottlenecks = Some(<<"CPU under-utilized (20.0%)",
                                        "Memory under-utilized (25.0%)",
                                        "High execution time variability">>)],
      [PerformanceOf(Some(FracInt(60)), Some(FracInt(70)), Some(FracInt(80)))
          EXCEPT !.bottlenecks = Some(<<>>)] }

\* n input sources
Sources(n) == [i \in 1..n |-> "s3://in/" \o ToString(i)]

DependencyAnalyses ==
    { DependencyAnalysis,
      [DependencyAnalysis EXCEPT !.input_sources = Some(Sources(6)),
                                 !.output_destinations = Some(<<"s3://out">>),
                                 !.schedule_conflicts =
                                     Some(<<"Overlaps etl_orders", "Overlaps etl_stock">>)],
      [DependencyAnalysis EXCEPT !.input_sources = Some(Sources(11)),
                                 !.output_destinations = Some(<<"s3://out">>),
                                 !.schedule_conflicts =
                                     Some(<<"Overlaps etl_orders", "Overlaps etl_stock",
                                            "Overlaps etl_users">>)] }

InitRecommend ==
    /\ args \in { [fn |-> "generate_recommendations_async",
                   preliminary_result |->
                       WithGlueVersion(PreliminaryOf(w[1], w[2], kc[2], kc[1], n), v),
                   code_analysis |-> c,
                   performance_analysis |-> p,
                   dependency_analysis |-> d] :
                    w \in RecWorkers, kc \in RecIdleCosts, n \in NamingIssueLists,
                    v \in GlueVersions, c \in CodeAnalyses, p \in PerformanceAnalyses,
                    d \in DependencyAnalyses }
    /\ ret = NoValue
    /\ ScanIdle
    /\ DeepIdle
    /\ ProvIdle

CallRecommend ==
    /\ args.fn = "generate_recommendations_async"
    /\ ret = NoValue
    /\ ret' = generate_recommendations_async(args.preliminary_result, args.code_analysis,
                                             args.performance_analysis,
                                             args.dependency_analysis)
    /\ UNCHANGED <<args, scanVars, deepVars, provVars>>

NextRecommend == CallRecommend

SpecRecommend == InitRecommend /\ [][NextRecommend]_vars

Recommended == args # NoValue /\ args.fn = "generate_recommendations_async" /\ ret # NoValue

\* float(glue_version) raises for the job
GlueVersionNotANumber ==
    /\ TruthyStr(args.preliminary_result.job_config.glue_version)
    /\ ~ParseFloat(args.preliminary_result.job_config.glue_version[1]).ok

\* C22: generate_recommendations_async never raises; when a rule evaluation
\* fails (a glue_version that is not a number) it returns an
\* AIRecommendations with every field unset, and otherwise all six fields
\* are set.
C22_NeverRaisesAllOrNothing ==
    Recommended =>
        /\ ret.ok
        /\ ret.value.pytype = "AIRecommendations"
        /\ LET fields == {ret.value.optimization_suggestions,
                          ret.value.cost_reduction_opportunities,
                          ret.value.modernization_recommendations,
                          ret.value.risk_assessment,
                          ret.value.priority_score,
                          ret.value.estimated_savings_brl}
           IN  IF GlueVersionNotANumber THEN fields = {PyNone} ELSE PyNone \notin fields

\* C22 witness: for a job whose glue_version is "latest" and whose analyses
\* give rise to recommendations and risks, the record returned has no
\* field set.
C22_Witness ==
    /\ Recommended
    /\ args.preliminary_result.job_config.glue_version = Some("latest")
    /\ args.preliminary_result.idle_analysis.category = "ABANDONED"
    /\ TruthyList(args.code_analysis.performance_issues)
    /\ ret = Return(AIRecommendations)

-----------------------------------------------------------------------------
(* Claims about the recommendations                                        *)

\* the call returned a filled AIRecommendations
Filled == Recommended /\ ret.ok /\ ret.value # AIRecommendations

StartsWith(s, prefix) == Len(s) >= Len(prefix) /\ SubSeq(s, 1, Len(prefix)) = prefix

\* where sub first occurs in s, 0 if nowhere
Position(s, sub) ==
    LET at == { i \in 1..(Len(s) - Len(sub) + 1) : SubSeq(s, i, i + Len(sub) - 1) = sub }
    IN  IF at = {} THEN 0 ELSE CHOOSE i \in at : \A j \in at : i <= j

\* the kinds of risk in the order the claim fixes
RiskKinds == <<"SECURITY", "PERFORMANCE", "DEPENDENCY", "COST", "OPERATIONAL">>

\* which kinds of risk the inputs of the call carry
RiskPresent ==
    LET prelim == args.preliminary_result
        IsSet(list) == list # PyNone /\ Len(list[1]) > 0
        CountOf(list) == IF list = PyNone THEN 0 ELSE Len(list[1])
    IN  << IsSet(args.code_analysis.security_issues),
           IsSet(args.code_analysis.performance_issues),
           CountOf(args.dependency_analysis.input_sources) > 10,
           FracGt(prelim.cost_estimate.estimated_monthly_brl, FracInt(1000)),
           prelim.idle_analysis.category \in {"ABANDONED", "NEVER_RUN"} >>

\* how many risks are present among the first i kinds
RisksUpTo(i) == Cardinality({ j \in 1..i : RiskPresent[j] })

\* C23: the assessment is LOW iff no risk was found, MEDIUM iff one or two
\* were found, HIGH iff three or more; a HIGH assessment names exactly the
\* first three risks found, in the order security, performance,
\* dependency, cost, operational.
C23_RiskLevels ==
    Filled =>
        LET text == ret.value.risk_assessment[1]
            found == RisksUpTo(5)
            Named(i) == Contains(text, RiskKinds[i] \o ": ")
        IN  /\ StartsWith(text, "LOW: ") <=> found = 0
            /\ StartsWith(text, "MEDIUM: ") <=> found \in 1..2
            /\ StartsWith(text, "HIGH: ") <=> found >= 3
            /\ \A i \in 1..5 : Named(i) <=> (RiskPresent[i] /\ RisksUpTo(i) <= 3)
            /\ \A i, j \in 1..5 : (i < j /\ Named(i) /\ Named(j)) =>
                  Position(text, RiskKinds[i] \o ": ") < Position(text, RiskKinds[j] \o ": ")

\* C23 witness: all five risks are present and the assessment is HIGH and
\* names the security, the performance and the dependency risk only.
C23_Witness ==
    /\ Filled
    /\ RisksUpTo(5) = 5
    /\ ret.value.risk_assessment =
          Some("HIGH: Multiple risks identified - "
               \o "SECURITY: Potential security vulnerabilities in code; "
               \o "PERFORMANCE: Code patterns that may cause failures; "
               \o "DEPENDENCY: High complexity due to many dependencies")

\* the savings of the n-th generated recommendation weighted by its
\* confidence: 0.9 for HIGH, 0.7 for MEDIUM, 0.5 otherwise
ConfidenceWeighted(n) ==
    LET rec == ret.all_recommendations[n]
        tenths == CASE rec.confidence = "HIGH" -> 9
                    [] rec.confidence = "MEDIUM" -> 7
                    [] OTHER -> 5
    IN  Frac(rec.estimated_savings_monthly[1] * tenths,
             rec.estimated_savings_monthly[2] * 10)

\* the weighted savings of all generated recommendations
WeightedTotal ==
    SumFracs([n \in 1..Len(ret.all_recommendations) |-> ConfidenceWeighted(n)])

\* C24 as stated: estimated_savings_brl is the sum over all generated
\* recommendations of the monthly savings weighted by the confidence, and
\* is never negative.
C24_SavingsAreWeightedSum ==
    Filled =>
        /\ ret.value.estimated_savings_brl[1] = WeightedTotal
        /\ ret.value.estimated_savings_brl[1][1] >= 0

\* C24: estimated_savings_brl is the sum over all generated
\* recommendations (not only the ten displayed) of the monthly savings
\* weighted by the confidence, rounded to two decimals: a whole number of
\* hundredths at most half a hundredth away from the sum; it is never
\* negative.
C24_SavingsAreRoundedWeightedSum ==
    Filled =>
        LET estimated == ret.value.estimated_savings_brl[1]
            diff == FracAdd(estimated, Frac(0 - WeightedTotal[1], WeightedTotal[2]))
        IN  /\ 100 % estimated[2] = 0
            /\ 200 * Abs(diff[1]) <= diff[2]
            /\ estimated[1] >= 0

\* C24 witness: fifteen recommendations were generated, five more than are
\* displayed, their weighted savings are 2630.0149 and the estimate is
\* 2630.01.
C24_Witness ==
    /\ Filled
    /\ Len(ret.all_recommendations) = 15
    /\ Len(ret.value.optimization_suggestions[1]) = 10
    /\ WeightedTotal = Frac(26300149, 10000)
    /\ ret.value.estimated_savings_brl = Some(Frac(263001, 100))

\* the place of the i-th generated recommendation when the recommendations
\* are put in order of decreasing savings and, among equal savings, in the
\* order of generation
PlaceOf(i) ==
    LET all == ret.all_recommendations
        savings(k) == all[k].estimated_savings_monthly
    IN  1 + Cardinality({ j \in 1..Len(all) : FracGt(savings(j), savings(i)) })
          + Cardinality({ j \in 1..(i - 1) : savings(j) = savings(i) })

\* C25: optimization_suggestions holds at most 10 entries, those of the
\* recommendations with the greatest savings in order of non-increasing
\* savings, recommendations of equal savings in generation order;
\* cost_reduction_opportunities holds only COST_OPTIMIZATION
\* recommendations with savings greater than 0, and
\* modernization_recommendations only MODERNIZATION or ARCHITECTURE ones.
C25_ListsHandedOut ==
    Filled =>
        LET all == ret.all_recommendations
            suggestions == ret.value.optimization_suggestions[1]
            cost_ops == ret.value.cost_reduction_opportunities[1]
            modern_ops == ret.value.modernization_recommendations[1]
        IN  /\ Len(suggestions) = Min(10, Len(all))
            /\ \A i \in 1..Len(all) :
                  PlaceOf(i) <= 10 => StartsWith(suggestions[PlaceOf(i)], all[i].title)
            /\ \A i, j \in 1..Len(all) :
                  PlaceOf(i) < PlaceOf(j) =>
                      ~FracLt(all[i].estimated_savings_monthly,
                              all[j].estimated_savings_monthly)
            /\ \A k \in 1..Len(cost_ops) :
                  \E i \in 1..Len(all) :
                      /\ all[i].type = "COST_OPTIMIZATION"
                      /\ FracGt(all[i].estimated_savings_monthly, FracInt(0))
                      /\ StartsWith(cost_ops[k], all[i].title \o " - R$ ")
            /\ \A k \in 1..Len(modern_ops) :
                  \E i \in 1..Len(all) :
                      /\ all[i].type \in {"MODERNIZATION", "ARCHITECTURE"}
                      /\ modern_ops[k] = all[i].title

\* C25 witness: fourteen recommendations were generated and ten are
\* displayed; the downgrade to G.1X and the resource efficiency
\* recommendation both save 300 and are displayed in that order, after the
\* review of the abandoned job; a cost recommendation and modernization
\* recommendations are handed out.
C25_Witness ==
    /\ Filled
    /\ Len(ret.all_recommendations) = 14
    /\ Len(ret.value.optimization_suggestions[1]) = 10
    /\ StartsWith(ret.value.optimization_suggestions[1][1], "Review abandoned job")
    /\ StartsWith(ret.value.optimization_suggestions[1][2], "Downgrade to G.1X workers")
    /\ StartsWith(ret.value.optimization_suggestions[1][3], "Improve resource efficiency")
    /\ Len(ret.value.cost_reduction_opportunities[1]) = 2
    /\ Len(ret.value.modernization_recommendations[1]) = 5

-----------------------------------------------------------------------------
(* SpecTags: extract_tags_info over job details with and without a Tags    *)
(* entry and with and without '--tag-' arguments                           *)

\* an empty dict
EmptyDict == <<>>

TagsEntries ==
    { EmptyDict, ("env" :> "prod"), ("Environment" :> "Prod") @@ ("team" :> "data"),
      ("Team" :> "Sales") @@ ("owner" :> "ana") }

DefaultArgumentsEntries ==
    { EmptyDict, ("--job-language" :> "python"), ("--tag-env" :> "DEV"),
      ("--tag-env" :> "test") @@ ("--tag-team" :> "Platform"),
      ("--tag-owner" :> "Bia") @@ ("--TempDir" :> "s3://tmp"), ("--tag-" :> "x") }

\* job details with the entries named in keys
TagsJobDetails ==
    { [keys |-> {"Name"} \cup keys, Name |-> name, Tags |-> tags, DefaultArguments |-> default_args] :
        keys \in SUBSET {"Tags", "DefaultArguments"}, name \in ScanNames, tags \in TagsEntries,
        default_args \in DefaultArgumentsEntries }

InitTags ==
    /\ args \in { [fn |-> "extract_tags_info", job_details |-> d] :
                    d \in { j \in TagsJobDetails :
                              /\ "Tags" \notin j.keys => j.Tags = EmptyDict
                              /\ "DefaultArguments" \notin j.keys
                                    => j.DefaultArguments = EmptyDict } }
    /\ ret = NoValue
    /\ ScanIdle
    /\ DeepIdle
    /\ ProvIdle

\* tags_info = extract_tags_info(job_details)
CallTags ==
    /\ args.fn = "extract_tags_info"
    /\ ret = NoValue
    /\ ret' = Return(extract_tags_info(args.job_details))
    /\ args' = [args EXCEPT !.job_details = extract_tags_info_leaves(args.job_details)]
    /\ UNCHANGED <<scanVars, deepVars, provVars>>

NextTags == CallTags

SpecTags == InitTags /\ [][NextTags]_vars

\* C29: extract_tags_info only reads its input: the call leaves the
\* job_details mapping, its Tags entry included, as it was, also when
\* DefaultArguments holds keys with the '--tag-' prefix.
C29_JobDetailsUnchanged == [][args'.job_details = args.job_details]_vars

-----------------------------------------------------------------------------
(* PerformanceAnalyzer._calculate_efficiency_score                         *)

\* round(x, 1), ties to even
Round1(x) ==
    LET whole == x[1] \div x[2]
        rest == x[1] % x[2]
        q == 10 * whole + (10 * rest) \div x[2]
        r == (10 * rest) % x[2]
        up == IF 2 * r > x[2] THEN 1 ELSE IF 2 * r = x[2] THEN q % 2 ELSE 0
    IN  Frac(q + up, 10)

FracMin(a, b) == IF FracGt(a, b) THEN b ELSE a

\* variant: a utilization counts as measured unless it is None
MeasuredUnlessNone(util) == util # PyNone

\* "if cpu_util": a utilization counts as measured when it is neither None
\* nor 0
Measured(util) == TruthyFloat(util)

\* cpu_score or memory_score
UtilizationScore(util) ==
    LET score == IF Measured(util)
                 THEN FracMin(FracMul(FracDiv(util[1], FracInt(80)), FracInt(100)),
                              FracInt(100))
                 ELSE FracInt(50)
    IN  IF Measured(util) /\ FracLt(util[1], FracInt(20))
        THEN FracMul(score, Frac(5, 10))
        ELSE score

calculate_efficiency_score(cpu_util, memory_util) ==
    IF cpu_util = PyNone /\ memory_util = PyNone THEN PyNone
    ELSE Some(Round1(FracDiv(FracAdd(UtilizationScore(cpu_util),
                                     UtilizationScore(memory_util)),
                             FracInt(2))))

-----------------------------------------------------------------------------
(* SpecEfficiency: _calculate_efficiency_score over utilizations missing,  *)
(* zero, low, in range and above 100                                       *)

UtilizationSamples ==
    { PyNone, Some(FracInt(0)), Some(Frac(1, 100)), Some(FracInt(10)), Some(Frac(1999, 100)),
      Some(FracInt(20)), Some(Frac(505, 10)), Some(FracInt(80)), Some(FracInt(100)),
      Some(FracInt(130)) }

InitEfficiency ==
    /\ args \in { [fn |-> "calculate_efficiency_score", cpu_util |-> c, memory_util |-> mu] :
                    c \in UtilizationSamples, mu \in UtilizationSamples }
    /\ ret = NoValue
    /\ ScanIdle
    /\ DeepIdle
    /\ ProvIdle

CallEfficiency ==
    /\ args.fn = "calculate_efficiency_score"
    /\ ret = NoValue
    /\ ret' = Return(calculate_efficiency_score(args.cpu_util, args.memory_util))
    /\ UNCHANGED <<args, scanVars, deepVars, provVars>>

NextEfficiency == CallEfficiency

SpecEfficiency == InitEfficiency /\ [][NextEfficiency]_vars

EfficiencyScored == args # NoValue /\ args.fn = "calculate_efficiency_score" /\ ret # NoValue

\* the utilization is missing or was measured as 0
MissingOrZero(util) == util = PyNone \/ util[1][1] = 0

\* what a utilization contributes when a missing one and one of 0 both
\* count as 50: otherwise its percentage of 80, at most 100, halved below 20
NeutralShare(util) ==
    IF MissingOrZero(util) THEN FracInt(50)
    ELSE LET percent == Frac(util[1][1] * 100, util[1][2] * 80)
             capped == IF FracGt(percent, FracInt(100)) THEN FracInt(100) ELSE percent
         IN  IF FracLt(util[1], FracInt(20)) THEN Frac(capped[1], capped[2] * 2) ELSE capped

\* C30: no score is returned iff both utilizations are missing; otherwise
\* the score lies between 0 and 100, and a missing utilization and one
\* measured as exactly 0 both count as a neutral 50.
C30_EfficiencyScore ==
    EfficiencyScored =>
        LET cpu_util == args.cpu_util
            memory_util == args.memory_util
            shares == FracAdd(NeutralShare(cpu_util), NeutralShare(memory_util))
            mean == Frac(shares[1], shares[2] * 2)
            diff == FracAdd(ret.value[1], Frac(0 - mean[1], mean[2]))
        IN  /\ ret.value = PyNone <=> (cpu_util = PyNone /\ memory_util = PyNone)
            /\ ret.value # PyNone =>
                  /\ ~FracLt(ret.value[1], FracInt(0))
                  /\ ~FracGt(ret.value[1], FracInt(100))
                  /\ 10 % ret.value[1][2] = 0
                  /\ 20 * Abs(diff[1]) <= diff[2]
                  /\ (MissingOrZero(cpu_util) /\ MissingOrZero(memory_util))
                        => ret.value[1] = FracInt(50)

\* C30 witness: the CPU utilization was measured as 0 and the memory
\* utilization is missing; the score is 50.
C30_Witness ==
    /\ EfficiencyScored
    /\ args.cpu_util = Some(FracInt(0))
    /\ args.memory_util = PyNone
    /\ ret.value = Some(FracInt(50))

-----------------------------------------------------------------------------
(* ReportGenerator._generate_summary                                       *)

\* the keys of candidate_for_deep_analysis in the order should_analyze_deeply
\* builds the dict
FlagNames == <<"high_cost", "inactive_expensive", "never_run", "naming_issues", "dev_in_prod">>

\* any(candidates.values())
AnyFlag(candidates) == \E i \in 1..Len(FlagNames) : candidates[FlagNames[i]]

\* [k for k, v in candidates.items() if v]
Reasons(candidates) == SelectSeq(FlagNames, LAMBDA k : candidates[k])

\* categories after the loop: how many results each category present has
CategoriesDistribution(result_list) ==
    LET present == { result_list[i].idle_analysis.category : i \in 1..Len(result_list) }
    IN  [c \in present |->
            Cardinality({ i \in 1..Len(result_list) : result_list[i].idle_analysis.category = c })]

\* the sum of the monthly costs of the results
SumCosts(result_list) ==
    SumFracs([i \in 1..Len(result_list) |->
                result_list[i].cost_estimate.estimated_monthly_brl])

\* the jobs whose cost counts as potential savings
CountsAsSavings(result) == result.idle_analysis.category \in {"ABANDONED", "NEVER_RUN"}

\* the entry of a result in deep_analysis_candidates
CandidateEntry(result) ==
    [job_name |-> result.job_name,
     reasons |-> Reasons(result.candidate_for_deep_analysis),
     cost |-> result.cost_estimate.estimated_monthly_brl,
     category |-> result.idle_analysis.category]

\* if any(candidates.values())
IsCandidate(result) == AnyFlag(result.candidate_for_deep_analysis)

\* deep_analysis_candidates after the loop
CandidatesOf(result_list) ==
    LET kept == SelectSeq(result_list, IsCandidate)
    IN  [i \in 1..Len(kept) |-> CandidateEntry(kept[i])]

\* the place a stable sort by decreasing cost gives the i-th candidate:
\* behind those that cost more and those before it that cost as much
PlaceByCost(candidates, i) ==
    1 + Cardinality({ j \in 1..Len(candidates) :
                        FracGt(candidates[j].cost, candidates[i].cost) })
      + Cardinality({ j \in 1..(i - 1) : candidates[j].cost = candidates[i].cost })

\* sorted(deep_analysis_candidates, key=cost, reverse=True)
SortedByCost(candidates) ==
    [k \in 1..Len(candidates) |->
        candidates[CHOOSE i \in 1..Len(candidates) : PlaceByCost(candidates, i) = k]]

\* the number of candidates the summary lists at most
candidates_limit == 20

\* variant: the summary lists every candidate
TopCandidatesAll(sorted) == sorted

\* [:20]
TopCandidates(sorted) == SubSeq(sorted, 1, Min(candidates_limit, Len(sorted)))

\* (potential_savings / total_cost * 100) if total_cost > 0 else 0
SavingsPercentage(potential_savings, total_cost) ==
    IF FracGt(total_cost, FracInt(0))
    THEN FracMul(FracDiv(potential_savings, total_cost), FracInt(100))
    ELSE FracInt(0)

generate_summary(result_list) ==
    LET total_cost == SumCosts(result_list)
        potential_savings == SumCosts(SelectSeq(result_list, CountsAsSavings))
    IN  [total_jobs |-> Len(result_list),
         successful_analyses |-> Len(result_list),
         categories_distribution |-> CategoriesDistribution(result_list),
         cost_summary |->
            [total_monthly_brl |-> Round2(total_cost),
             potential_savings_brl |-> Round2(potential_savings),
             savings_percentage |-> Round1(SavingsPercentage(potential_savings, total_cost))],
         deep_analysis_candidates |-> TopCandidates(SortedByCost(CandidatesOf(result_list)))]

-----------------------------------------------------------------------------
(* SpecSummary: _generate_summary over lists of preliminary results, from  *)
(* none to more than the summary lists as candidates                       *)

MaxResults == 22

\* category and monthly cost in BRL of the jobs summarized: a job never
\* run costs nothing
SummaryIdleCosts ==
    { <<"ACTIVE", FracInt(0)>>, <<"ACTIVE", Frac(120001, 200)>>, <<"RECENT", FracInt(50)>>,
      <<"INACTIVE", FracInt(150)>>, <<"ABANDONED", Frac(5001, 2)>>,
      <<"NEVER_RUN", FracInt(0)>> }

\* the JobAnalysisResult of a job of this name, category and cost, with the
\* flags should_analyze_deeply gives it
SummaryResult(job_name, category, brl) ==
    LET prelim == PreliminaryOf(PyNone, PyNone, brl, category, validate_job_name(job_name))
        flags == should_analyze_deeply([keys |-> {"Name"}, Name |-> job_name], <<>>,
                                       prelim.cost_estimate, prelim.idle_analysis,
                                       prelim.code_analysis,
                                       extract_tags_info([keys |-> {"Name"},
                                                          Name |-> job_name]))
    IN  [candidate_for_deep_analysis |-> flags.value]
        @@ [prelim EXCEPT !.job_name = job_name]

SummaryResults ==
    { SummaryResult(n, kc[1], kc[2]) : n \in ScanNames, kc \in SummaryIdleCosts }

\* the list of the given length that repeats the pattern
Repeated(pattern, length) ==
    [i \in 1..length |-> pattern[((i - 1) % Len(pattern)) + 1]]

SummaryLists ==
    { Repeated(pattern, length) :
        pattern \in SeqsUpTo(SummaryResults, 2) \ {<<>>},
        length \in {1, 2, MaxResults - 1, MaxResults} }
    \cup {<<>>}

InitSummary ==
    /\ args \in { [fn |-> "generate_summary", results |-> l] : l \in SummaryLists }
    /\ ret = NoValue
    /\ ScanIdle
    /\ DeepIdle
    /\ ProvIdle

CallSummary ==
    /\ args.fn = "generate_summary"
    /\ ret = NoValue
    /\ ret' = Return(generate_summary(args.results))
    /\ UNCHANGED <<args, scanVars, deepVars, provVars>>

NextSummary == CallSummary

SpecSummary == InitSummary /\ [][NextSummary]_vars

Summarized == args # NoValue /\ args.fn = "generate_summary" /\ ret # NoValue

\* the sum of the counts of a categories dict
RECURSIVE SumCounts(_, _)
SumCounts(counts, keys) ==
    IF keys = {} THEN 0
    ELSE LET k == CHOOSE x \in keys : TRUE
         IN  counts[k] + SumCounts(counts, keys \ {k})

\* C27: the per-category counts sum to total_jobs, which is the number of
\* results; deep_analysis_candidates has at most 20 entries in order of
\* non-increasing cost; the potential savings do not exceed the total
\* cost; savings_percentage lies between 0 and 100 and is 0 when the total
\* cost is 0.
C27_SummaryInvariants ==
    Summarized =>
        LET summary == ret.value
            counts == summary.categories_distribution
            candidates == summary.deep_analysis_candidates
            costs == summary.cost_summary
        IN  /\ summary.total_jobs = Len(args.results)
            /\ SumCounts(counts, DOMAIN counts) = summary.total_jobs
            /\ Len(candidates) <= 20
            /\ \A i, j \in 1..Len(candidates) :
                  i < j => ~FracLt(candidates[i].cost, candidates[j].cost)
            /\ ~FracGt(costs.potential_savings_brl, costs.total_monthly_brl)
            /\ ~FracLt(costs.savings_percentage, FracInt(0))
            /\ ~FracGt(costs.savings_percentage, FracInt(100))
            /\ FracIsZero(costs.total_monthly_brl) => FracIsZero(costs.savings_percentage)

\* C27 witness: 22 results of two categories were summarized, 11 abandoned
\* jobs costing 2500.5 and 11 inactive ones costing 150; all are candidates,
\* 20 are listed, the abandoned ones first, and the potential savings are
\* 27505.5 of 29155.5, 94.3 percent.
C27_Witness ==
    /\ Summarized
    /\ ret.value.total_jobs = MaxResults
    /\ DOMAIN ret.value.categories_distribution = {"ABANDONED", "INACTIVE"}
    /\ args.results[1].idle_analysis.category = "INACTIVE"
    /\ Len(ret.value.deep_analysis_candidates) = 20
    /\ ret.value.deep_analysis_candidates[11].category = "ABANDONED"
    /\ ret.value.deep_analysis_candidates[12].category = "INACTIVE"
    /\ ret.value.cost_summary.potential_savings_brl = Frac(55011, 2)
    /\ ret.value.cost_summary.total_monthly_brl = Frac(58311, 2)
    /\ ret.value.cost_summary.savings_percentage = Frac(943, 10)

-----------------------------------------------------------------------------
(* analyze_job_preliminary on fetched data, and what the later stages make *)
(* of the analyses it computes                                             *)

\* QuickCodeAnalysis(**d): the dataclass the result's field is declared as
QuickCodeAnalysisOf(d) ==
    [pytype |-> "QuickCodeAnalysis",
     has_script |-> d.has_script,
     script_location |-> d.script_location,
     inferred_purpose |-> d.inferred_purpose,
     naming_issues |-> d.naming_issues]

\* the JobAnalysisResult of lines 61-71 as the dataclass declares it: the
\* analyses of lines 42-45 with the code analysis as a QuickCodeAnalysis
DeclaredResult(job_name, job_details, job_runs) ==
    LET idle_analysis == categorize_by_idle_time(job_details, job_runs, Now)
        cost_estimate == quick_cost_estimate(job_details, job_runs)
        tags_info == extract_tags_info(job_details)
        code_analysis == QuickCodeAnalysisOf(quick_code_analysis(job_details))
        flags == should_analyze_deeply(job_details, job_runs, cost_estimate,
                                       idle_analysis, code_analysis, tags_info)
    IN  [pytype |-> "JobAnalysisResult",
         job_name |-> job_name,
         job_config |-> [extract_job_config(job_details) EXCEPT
                            !.avg_execution_time_minutes =
                                calculate_avg_execution_time(job_runs)],
         idle_analysis |-> idle_analysis,
         cost_estimate |-> cost_estimate,
         tags_info |-> tags_info,
         code_analysis |-> code_analysis,
         recent_runs_count |-> Len(job_runs),
         candidate_for_deep_analysis |-> flags.value]

AnalyzeNames == {"etl_sales", "Test Load"}

AnalyzeWorkerTypes == {"G.1X", "G.8X"}

AnalyzeArguments ==
    { "--job-language" :> "python",
      ("--tag-env" :> "DEV") @@ ("--job-language" :> "python"),
      ("--tag-env" :> "prod") @@ ("--job-language" :> "python") }

AnalyzeJobDetails ==
    { [JobOf(n) EXCEPT !.WorkerType = w, !.DefaultArguments = a] :
        n \in AnalyzeNames, w \in AnalyzeWorkerTypes, a \in AnalyzeArguments }

AnalyzeJobRuns ==
    { <<>>,
      <<OneRun(8, "SUCCEEDED", 7200)>>,
      <<OneRun(8, "FAILED", 0)>>,
      <<OneRun(8, "SUCCEEDED", 600), OneRun(9, "SUCCEEDED", 600)>>,
      <<OneRun(60, "SUCCEEDED", 7200)>>,
      <<OneRun(60, "SUCCEEDED", 600)>>,
      <<OneRun(120, "SUCCEEDED", 7200)>>,
      <<OneRun(120, "SUCCEEDED", 600)>> }

InitAnalyze ==
    /\ args \in { [fn |-> "analyze_job_preliminary", job_details |-> j, job_runs |-> r] :
                    j \in AnalyzeJobDetails, r \in AnalyzeJobRuns }
    /\ ret = NoValue
    /\ ScanIdle
    /\ DeepIdle
    /\ ProvIdle

\* lines 40-71 on the fetched job: the analyses of lines 42-45 stay in the
\* state next to the outcome
CallAnalyze ==
    /\ args.fn = "analyze_job_preliminary"
    /\ ret = NoValue
    /\ ret' = [stage |-> "analyzed",
               outcome |-> AnalyzeFetched(args.job_details.Name, args.job_details,
                                          args.job_runs),
               idle_analysis |-> categorize_by_idle_time(args.job_details,
                                                         args.job_runs, Now),
               cost_estimate |-> quick_cost_estimate(args.job_details, args.job_runs)]
    /\ UNCHANGED <<args, scanVars, deepVars, provVars>>

\* the recommender on the declared result of the analysed job
CallRecommendAnalyzed ==
    /\ args.fn = "analyze_job_preliminary"
    /\ ret # NoValue
    /\ ret.stage = "analyzed"
    /\ \E c \in CodeAnalyses, p \in PerformanceAnalyses :
          ret' = [stage |-> "recommended",
                  idle_analysis |-> ret.idle_analysis,
                  cost_estimate |-> ret.cost_estimate,
                  returned |->
                      generate_recommendations_async(
                          DeclaredResult(args.job_details.Name, args.job_details,
                                         args.job_runs),
                          c, p, DependencyAnalysis)]
    /\ UNCHANGED <<args, scanVars, deepVars, provVars>>

\* the summary of a report holding the declared result of the analysed job
CallSummaryAnalyzed ==
    /\ args.fn = "analyze_job_preliminary"
    /\ ret # NoValue
    /\ ret.stage = "analyzed"
    /\ ret' = [stage |-> "summarized",
               idle_analysis |-> ret.idle_analysis,
               cost_estimate |-> ret.cost_estimate,
               result |-> DeclaredResult(args.job_details.Name, args.job_details,
                                         args.job_runs),
               summary |->
                   generate_summary(<<DeclaredResult(args.job_details.Name,
                                                     args.job_details, args.job_runs)>>)]
    /\ UNCHANGED <<args, scanVars, deepVars, provVars>>

NextAnalyze == CallAnalyze \/ CallRecommendAnalyzed \/ CallSummaryAnalyzed

SpecAnalyze == InitAnalyze /\ [][NextAnalyze]_vars

Analyzed == args # NoValue /\ args.fn = "analyze_job_preliminary" /\ ret # NoValue

-----------------------------------------------------------------------------
(* Claims about the flags and about jobs that never ran                    *)

\* C26: should_analyze_deeply sets high_cost iff the monthly cost in BRL is
\* above 500, inactive_expensive iff the category is ABANDONED or INACTIVE
\* and the cost is above 100, never_run iff the category is NEVER_RUN,
\* naming_issues iff the name has a naming issue, dev_in_prod iff the
\* environment tag is dev or test or the name contains 'test'; the summary
\* lists the job as a candidate only if one of the flags is true.
C26_FlagsAsStated ==
    (Analyzed /\ ret.stage = "analyzed") =>
        /\ ret.outcome.ok
        /\ LET result == ret.outcome.value
               flags == result.candidate_for_deep_analysis
               brl == ret.cost_estimate.estimated_monthly_brl
               category == ret.idle_analysis.category
               name == args.job_details.Name
               listed == generate_summary(<<result>>).deep_analysis_candidates
           IN  /\ flags.high_cost <=> FracGt(brl, FracInt(500))
               /\ flags.inactive_expensive <=>
                      (category \in {"ABANDONED", "INACTIVE"} /\ FracGt(brl, FracInt(100)))
               /\ flags.never_run <=> category = "NEVER_RUN"
               /\ flags.naming_issues <=> validate_job_name(name) # <<>>
               /\ flags.dev_in_prod <=>
                      \/ extract_tags_info(args.job_details).environment \in {"dev", "test"}
                      \/ Contains(Lower(name), "test")
               /\ listed # <<>> => AnyFlag(flags)

NeverRun == Analyzed /\ ret.idle_analysis.category = "NEVER_RUN"

\* the recommendations of the call that remove the unused job
RemoveUnused ==
    SelectSeq(ret.returned.all_recommendations,
              LAMBDA rec : rec.title = "Remove unused job")

\* C28: a job categorized NEVER_RUN has an estimated monthly cost of 0; it
\* never sets the high_cost flag, its 'Remove unused job' recommendation
\* carries savings 0 and is no entry of cost_reduction_opportunities, and
\* it adds 0 to the potential savings of the summary.
C28_NeverRunCostsNothing ==
    NeverRun =>
        /\ args.job_runs = <<>>
        /\ ret.cost_estimate.estimated_monthly_brl = FracInt(0)
        /\ ret.stage = "analyzed" =>
              (ret.outcome.ok => ~ret.outcome.value.candidate_for_deep_analysis.high_cost)
        /\ ret.stage = "recommended" =>
              /\ ret.returned.ok
              /\ Len(RemoveUnused) = 1
              /\ RemoveUnused[1].estimated_savings_monthly = FracInt(0)
              /\ \A k \in 1..Len(ret.returned.value.cost_reduction_opportunities[1]) :
                    ~StartsWith(ret.returned.value.cost_reduction_opportunities[1][k],
                                "Remove unused job")
        /\ ret.stage = "summarized" =>
              /\ ~ret.result.candidate_for_deep_analysis.high_cost
              /\ ret.result.candidate_for_deep_analysis.never_run
              /\ ret.summary.cost_summary.potential_savings_brl = FracInt(0)

\* C28 witness: a G.8X job that never ran went through the recommender,
\* which proposes to remove it and hands out no cost opportunity for it.
C28_Witness ==
    /\ NeverRun
    /\ ret.stage = "recommended"
    /\ args.job_details.WorkerType = "G.8X"
    /\ Len(RemoveUnused) = 1
    /\ RemoveUnused[1].estimated_savings_monthly = FracInt(0)
    /\ ret.returned.value.cost_reduction_opportunities = Some(<<>>)

====
